---- MODULE Spec2Model ----
(***************************************************************************)
(* Package feature (mpyw/feature): typed keys over context.Context.        *)
(*                                                                         *)
(* The state is the Go heap the package works on: the keys constructed so  *)
(* far (each owning one *opaque identity), the valueCtx nodes created by   *)
(* context.WithValue, the Inspection value the caller holds, and the       *)
(* result of the last call.  Handle 0 is context.Background().             *)
(* binder is a history variable: binder[h] is the key (its index in keys)  *)
(* whose method created ctxs[h].  gor holds the goroutines the program has  *)
(* started: their position and their local variables.  arrays holds the    *)
(* backing arrays of the []Option slices the caller has built, and slices  *)
(* the slice values (array and length) the caller's variables hold.        *)
(***************************************************************************)
EXTENDS Integers, Sequences, FiniteSets, TLC

VARIABLES keys, ctxs, binder, insp, ret, gor, arrays, slices

vars == <<keys, ctxs, binder, insp, ret, gor, arrays, slices>>

(* Bounds of the model: the keys and the contexts of a program that binds   *)
(* from any context it holds (Spec), the chain length of a program that    *)
(* rebinds one context variable (SpecChain), and the keys of such a        *)
(* program that also reads them (SpecRead, SpecInsp).                      *)
MaxKeys == 2
MaxCtx == 2
MaxChainKeys == 1
MaxChain == 3
NumGoroutines == 2
MaxShared == 1

(***************************************************************************)
(* Go values.  A value of a concrete static type V is its payload; a value *)
(* of an interface type (and the `any` stored in a valueCtx) is either nil *)
(* or a pair of dynamic type and payload.                                  *)
(***************************************************************************)
NilIface == [t |-> "nil", v |-> 0]

(* The nil pointer. *)
Nil == 0

(* fmt's %p of a pointer. *)
FormatP(ident) == "0xc00000" \o ToString(ident)

(* The value types V that New and NewNamed are instantiated with: a        *)
(* concrete type (the boxed value of a scalar, a struct or a pointer, a    *)
(* nil pointer too, carries its type) and an interface type implemented by *)
(* the concrete type "impl".  NewBool instantiates "bool".                 *)
Types == {"int", "iface"}

IsInterface(V) == V = "iface"

(* The dynamic types whose values satisfy a type assertion to V. *)
Implements(V) == IF IsInterface(V) THEN {"impl"} ELSE {V}

(* *new(V): the zero value of V. *)
Zero(V) ==
  CASE V = "bool" -> FALSE
    [] V = "int" -> 0
    [] OTHER -> NilIface

(* The values of type V the callers bind. *)
Values(V) ==
  CASE V = "bool" -> {FALSE, TRUE}
    [] V = "int" -> {0, 1}
    [] OTHER -> {NilIface, [t |-> "impl", v |-> 1]}

(* A conversion that stores the zero value of V as a nil any. *)
ToAny_ZeroAsNil(V, x) ==
  IF IsInterface(V) THEN x
  ELSE IF x = Zero(V) THEN NilIface
  ELSE [t |-> V, v |-> x]

(* Conversion of a value of static type V to `any` (the val parameter of   *)
(* context.WithValue): a concrete value is boxed with its type; an         *)
(* interface value keeps its dynamic type, and a nil interface is nil any. *)
ToAny(V, x) == IF IsInterface(V) THEN x ELSE [t |-> V, v |-> x]

(* A loose conversion: any non-nil value is handed out as a V. *)
TypeAssert_Loose(a, V) ==
  IF a.t # "nil"
    THEN [val |-> IF IsInterface(V) THEN a ELSE a.v, ok |-> TRUE]
    ELSE [val |-> Zero(V), ok |-> FALSE]

(* The type assertion a.(V) in its two-result form. *)
TypeAssert(a, V) ==
  IF a.t \in Implements(V)
    THEN [val |-> IF IsInterface(V) THEN a ELSE a.v, ok |-> TRUE]
    ELSE [val |-> Zero(V), ok |-> FALSE]

(* fmt's %v of a value of type V. *)
FormatV(V, x) ==
  CASE V = "bool" -> IF x THEN "true" ELSE "false"
    [] V = "int" -> ToString(x)
    [] OTHER -> IF x.t = "nil" THEN "<nil>" ELSE "impl(" \o ToString(x.v) \o ")"

(***************************************************************************)
(* Options and naming.                                                     *)
(***************************************************************************)
(* The names callers pass; "" is the empty name. *)
Names == {"", "n"}

(* WithName(name): an Option that sets options.name. *)
WithName(name) == [kind |-> "name", name |-> name]

(* The Option appended by appendCallerDepthIncr: o.depth++. *)
DepthIncr == [kind |-> "depth", name |-> ""]

(* A forwarding constructor that does not count its own frame. *)
appendCallerDepthIncr_Uncounted(opts) == opts

appendCallerDepthIncr(opts) == Append(opts, DepthIncr)

defaultOptions == [name |-> "", depth |-> 0]

(* One Option function applied to *options. *)
ApplyOption(o, optFn) ==
  IF optFn.kind = "name"
    THEN [o EXCEPT !.name = optFn.name]
    ELSE [o EXCEPT !.depth = o.depth + 1]

RECURSIVE ApplyOptions(_, _)
ApplyOptions(o, opts) ==
  IF opts = <<>> THEN o
  ELSE ApplyOptions(ApplyOption(o, Head(opts)), Tail(opts))

optionsFrom(opts) == ApplyOptions(defaultOptions, opts)

(* The call sites inside the package, innermost first, as runtime.Caller   *)
(* reports them: the line of each function that makes the next call.       *)
FrameComputeKeyName == [file |-> "feature.go", line |-> 605]
FrameNew == [file |-> "feature.go", line |-> 664]
FrameNewBool == [file |-> "feature.go", line |-> 630]
FrameNewNamed == [file |-> "feature.go", line |-> 681]
FrameNewNamedBool == [file |-> "feature.go", line |-> 645]

(* The call sites of user code. *)
UserSites == {[file |-> "main.go", line |-> 42]}

(* runtime.Caller(skip) on the stack `stack` (innermost frame first). *)
Caller(stack, skip) ==
  IF skip + 1 <= Len(stack)
    THEN [file |-> stack[skip + 1].file, line |-> stack[skip + 1].line, ok |-> TRUE]
    ELSE [file |-> "", line |-> 0, ok |-> FALSE]

(* A name that is always decorated with the address. *)
computeKeyName_Decorated(ident, name, depth, stack) ==
  (IF name = "" THEN "anonymous" ELSE name) \o "@" \o FormatP(ident)

(* A name that is used as supplied, empty or not. *)
computeKeyName_Verbatim(ident, name, depth, stack) == name

(* A name that is left empty when the caller cannot be resolved. *)
computeKeyName_NoFallback(ident, name, depth, stack) ==
  IF name = ""
    THEN LET c == Caller(stack, 1 + depth)
         IN IF c.ok
              THEN "anonymous(" \o c.file \o ":" \o ToString(c.line) \o ")@"
                     \o FormatP(ident)
              ELSE ""
    ELSE name

computeKeyName(ident, name, depth, stack) ==
  IF name = ""
    THEN LET c == Caller(stack, 1 + depth)
         IN IF c.ok
              THEN "anonymous(" \o c.file \o ":" \o ToString(c.line) \o ")@"
                     \o FormatP(ident)
              ELSE "anonymous@" \o FormatP(ident)
    ELSE name

(* An allocation that fails to produce an address. *)
NewOpaque_Nil == Nil

(* A zero-sized opaque: every allocation may return the same address. *)
NewOpaque_ZeroSized == Nil + 1

(* new(opaque): a fresh non-nil address; opaque is not zero-sized, so no   *)
(* two allocations share one. *)
NewOpaque == Len(keys) + 1

(* New[V](options...), called with the frames `outer` below it on the      *)
(* stack (innermost first, the user's frame last). *)
New(V, options, outer) ==
  LET opts == optionsFrom(appendCallerDepthIncr(options))
      ident == NewOpaque
  IN [name |-> computeKeyName(ident, opts.name, opts.depth,
                              <<FrameComputeKeyName, FrameNew>> \o outer),
      ident |-> ident,
      V |-> V,
      bool |-> FALSE]

(* A NewNamed that applies its name after the caller's options. *)
NewNamed_NameLast(V, name, options, outer) ==
  New(V, appendCallerDepthIncr(options) \o <<WithName(name)>>,
      <<FrameNewNamed>> \o outer)

NewNamed(V, name, options, outer) ==
  New(V, <<WithName(name)>> \o appendCallerDepthIncr(options),
      <<FrameNewNamed>> \o outer)

(* boolKey{key: New[bool](options...).downcast()} *)
NewBool(options, outer) ==
  [New("bool", appendCallerDepthIncr(options), <<FrameNewBool>> \o outer)
     EXCEPT !.bool = TRUE]

NewNamedBool(name, options, outer) ==
  NewBool(<<WithName(name)>> \o appendCallerDepthIncr(options),
          <<FrameNewNamedBool>> \o outer)

(* A String() that computes the name when it is called, from the site of   *)
(* that call. *)
String_AtCall(k) ==
  computeKeyName(k.ident, "", 0,
                 <<FrameComputeKeyName, [file |-> "main.go", line |-> 100 + Len(ctxs)]>>)

(* String(): the name fixed at construction. *)
String(k) == k.name

(***************************************************************************)
(* GoString, and the evaluation of the expression it returns.              *)
(***************************************************************************)
(* typeName: reflect's String() of the type V, the name of V as Go source  *)
(* writes it; the interface type is error. *)
TypeName(V) == IF V = "iface" THEN "error" ELSE V

(* fmt's %q of a string without characters that need an escape. *)
Quote(s) == "\"" \o s \o "\""

(* The struct-literal form: not an expression a caller can evaluate, as    *)
(* key is unexported. *)
key_GoString_StructLiteral(k) ==
  "feature.Key[" \o TypeName(k.V) \o "]{name: " \o Quote(k.name) \o "}"

(* key.GoString *)
key_GoString(k) ==
  "feature.New[" \o TypeName(k.V) \o "](feature.WithName(" \o Quote(k.name) \o "))"

(* boolKey.GoString *)
boolKey_GoString(k) ==
  "feature.NewBool(feature.WithName(" \o Quote(k.name) \o "))"

(* The method a key value dispatches to. *)
GoString(k) == IF k.bool THEN boolKey_GoString(k) ELSE key_GoString(k)

(* The constructor calls Go source can write with the string literals      *)
(* `literals`, and the source text of each. *)
Calls(literals) ==
  [fn : {"New"}, V : Types, name : literals]
    \cup [fn : {"NewBool"}, V : {"bool"}, name : literals]

Source(call) ==
  IF call.fn = "New"
    THEN "feature.New[" \o TypeName(call.V) \o "](feature.WithName("
           \o Quote(call.name) \o "))"
    ELSE "feature.NewBool(feature.WithName(" \o Quote(call.name) \o "))"

(* Parsing an expression: the call whose source text it is, if any. *)
Parse(expr, literals) ==
  LET found == {call \in Calls(literals) : Source(call) = expr}
  IN IF found = {} THEN [ok |-> FALSE]
     ELSE [ok |-> TRUE, call |-> CHOOSE call \in found : TRUE]

(* Evaluating a parsed call at the user's site. *)
Eval(call, site) ==
  IF call.fn = "New"
    THEN New(call.V, <<WithName(call.name)>>, <<site>>)
    ELSE NewBool(<<WithName(call.name)>>, <<site>>)

(***************************************************************************)
(* Contexts.  ctxs[h] is the valueCtx at handle h; handle 0 is the empty   *)
(* root context.Background().                                              *)
(***************************************************************************)
Background == 0

(* A nil context.Context. *)
NilContext == -1

(* A lookup that looks at the nearest valueCtx only and never follows the  *)
(* A lookup in which the oldest bind of the chain wins. *)
RECURSIVE Value_OldestWins(_, _)
Value_OldestWins(ctx, key) ==
  IF ctx = Background THEN NilIface
  ELSE LET up == Value_OldestWins(ctxs[ctx].parent, key)
       IN IF \E h \in 1..ctxs[ctx].parent : ctxs[h].key = key /\ up = ctxs[h].val
            THEN up
          ELSE IF ctxs[ctx].key = key THEN ctxs[ctx].val
          ELSE NilIface

(* parent link. *)
Value_NearestOnly(ctx, key) ==
  IF ctx = Background THEN NilIface
  ELSE IF ctxs[ctx].key = key THEN ctxs[ctx].val
  ELSE NilIface

(* ctx.Value(key): valueCtx.Value walks the parent links and returns the   *)
(* val of the nearest node whose key is identical to `key`; the root       *)
(* returns nil. *)
RECURSIVE Value(_, _)
Value(ctx, key) ==
  IF ctx = Background THEN NilIface
  ELSE IF ctxs[ctx].key = key THEN ctxs[ctx].val
  ELSE Value(ctxs[ctx].parent, key)

(* A bind that also writes the binding into the parent it was given. *)
ContextWithValue_InPlace(parent, key, val) ==
  LET node == [parent |-> parent, key |-> key, val |-> val]
      written == IF parent = Background THEN ctxs
                 ELSE [ctxs EXCEPT ![parent].key = key, ![parent].val = val]
  IN [ctxs |-> Append(written, node), ctx |-> Len(ctxs) + 1, panic |-> ""]

(* context.WithValue(parent, key, val): panics on a nil parent or a nil    *)
(* key; otherwise allocates a new valueCtx and leaves the parent as it is. *)
(* The result is the heap after the call, the returned handle and the      *)
(* panic message ("" when the call returns). *)
ContextWithValue(parent, key, val) ==
  IF parent = NilContext
    THEN [ctxs |-> ctxs, ctx |-> NilContext,
          panic |-> "cannot create context from nil parent"]
  ELSE IF key = Nil
    THEN [ctxs |-> ctxs, ctx |-> NilContext, panic |-> "nil key"]
  ELSE [ctxs |-> Append(ctxs, [parent |-> parent, key |-> key, val |-> val]),
        ctx |-> Len(ctxs) + 1,
        panic |-> ""]

(* key.WithValue(ctx, value) *)
WithValue(k, ctx, value) == ContextWithValue(ctx, k.ident, ToAny(k.V, value))

(* boolKey.WithEnabled / WithDisabled *)
WithEnabled(k, ctx) == WithValue(k, ctx, TRUE)

WithDisabled(k, ctx) == WithValue(k, ctx, FALSE)

(***************************************************************************)
(* Reads.  A call that can panic yields the returned value and the panic   *)
(* message ("" when the call returns).                                     *)
(***************************************************************************)
Return(val) == [val |-> val, panic |-> ""]

Panic(V, msg) == [val |-> Zero(V), panic |-> msg]

(* key.TryGet: val, ok := ctx.Value(k.ident).(V) *)
TryGet(k, ctx) == TypeAssert(Value(ctx, k.ident), k.V)

(* A downcast that gives the key[V] an identity of its own. *)
downcast_Rekeyed(k) == [k EXCEPT !.bool = FALSE, !.ident = k.ident + 1]

(* downcast(): the key[V] struct itself; for a boolKey, the key[bool] it   *)
(* embeds, with the same name and ident. *)
downcast(k) == [k EXCEPT !.bool = FALSE]

(* The nil Key[V]: the Key field of a zero Inspection[V]. *)
NoKey(V) == [name |-> "", ident |-> Nil, V |-> V, bool |-> FALSE]

(* An Inspect that leaves the Key field unset. *)
Inspect_NoKey(k, ctx) ==
  LET r == TypeAssert(Value(ctx, k.ident), k.V)
  IN [Key |-> NoKey(k.V), Value |-> r.val, Ok |-> r.ok]

(* key.Inspect: the receiver, and so the Key of the result, is the key[V]. *)
Inspect(k, ctx) ==
  LET r == TryGet(k, ctx)
  IN [Key |-> downcast(k), Value |-> r.val, Ok |-> r.ok]

(* Inspection methods *)
Inspection_Get(i) == i.Value

Inspection_TryGet(i) == [val |-> i.Value, ok |-> i.Ok]

(* A GetOrDefault that takes the zero value for an absent one. *)
Inspection_GetOrDefault_ZeroIsAbsent(i, defaultValue) ==
  IF i.Ok /\ i.Value # Zero(i.Key.V) THEN i.Value ELSE defaultValue

Inspection_GetOrDefault(i, defaultValue) ==
  IF i.Ok THEN i.Value ELSE defaultValue

NotSetMessage(name) == "key " \o name \o " is not set in context"

(* A MustGet that also panics on a present zero value. *)
Inspection_MustGet_ZeroPanics(i) ==
  IF ~i.Ok \/ i.Value = Zero(i.Key.V)
    THEN Panic(i.Key.V, NotSetMessage(String(i.Key)))
    ELSE Return(i.Value)

(* The run-time panic of a method call on a nil interface value. *)
NilDereference == "runtime error: invalid memory address or nil pointer dereference"

Inspection_MustGet(i) ==
  IF ~i.Ok
    THEN IF i.Key = NoKey(i.Key.V)
           THEN Panic(i.Key.V, NilDereference)
           ELSE Panic(i.Key.V, NotSetMessage(String(i.Key)))
    ELSE Return(i.Value)

Inspection_IsSet(i) == i.Ok

Inspection_IsNotSet(i) == ~i.Ok

(* A String() that takes a zero value for an absent one. *)
Inspection_String_ZeroAsNotSet(i) ==
  IF ~i.Ok \/ i.Value = Zero(i.Key.V) THEN String(i.Key) \o ": <not set>"
  ELSE String(i.Key) \o ": " \o FormatV(i.Key.V, i.Value)

Inspection_String(i) ==
  IF ~i.Ok THEN String(i.Key) \o ": <not set>"
  ELSE String(i.Key) \o ": " \o FormatV(i.Key.V, i.Value)

(* BoolInspection methods *)
BoolInspection_Enabled(i) == i.Value

BoolInspection_Disabled(i) == ~BoolInspection_Enabled(i)

(* An ExplicitlyDisabled that looks at the value only. *)
BoolInspection_ExplicitlyDisabled_ValueOnly(i) == ~i.Value

BoolInspection_ExplicitlyDisabled(i) == i.Ok /\ ~i.Value

(* BoolInspection.String: delegates to the embedded Inspection. *)
BoolInspection_String(i) == Inspection_String(i)

(* key methods: each delegates to Inspect(ctx) *)
Get(k, ctx) == Inspection_Get(Inspect(k, ctx))

GetOrDefault(k, ctx, defaultValue) ==
  Inspection_GetOrDefault(Inspect(k, ctx), defaultValue)

MustGet(k, ctx) == Inspection_MustGet(Inspect(k, ctx))

IsSet(k, ctx) == Inspection_IsSet(Inspect(k, ctx))

IsNotSet(k, ctx) == Inspection_IsNotSet(Inspect(k, ctx))

(* boolKey methods *)
InspectBool(k, ctx) == Inspect(k, ctx)

Enabled(k, ctx) == BoolInspection_Enabled(InspectBool(k, ctx))

Disabled(k, ctx) == BoolInspection_Disabled(InspectBool(k, ctx))

(* The direct implementation of the reads: each computed from TryGet,      *)
(* without an Inspection. *)
Direct_DebugValue(k, ctx) ==
  LET keyName == String(k)
      r == TryGet(k, ctx)
  IN IF ~r.ok THEN keyName \o ": <not set>"
     ELSE keyName \o ": " \o FormatV(k.V, r.val)

Direct_Get(k, ctx) == TryGet(k, ctx).val

Direct_GetOrDefault(k, ctx, defaultValue) ==
  LET r == TryGet(k, ctx)
  IN IF r.ok THEN r.val ELSE defaultValue

Direct_MustGet(k, ctx) ==
  LET r == TryGet(k, ctx)
  IN IF ~r.ok THEN Panic(k.V, NotSetMessage(String(k)))
     ELSE Return(r.val)

Direct_IsSet(k, ctx) == TryGet(k, ctx).ok

Direct_IsNotSet(k, ctx) == ~Direct_IsSet(k, ctx)

Direct_Enabled(k, ctx) == Direct_Get(k, ctx)

Direct_Disabled(k, ctx) == ~Direct_Enabled(k, ctx)

Direct_ExplicitlyDisabled(k, ctx) ==
  LET r == TryGet(k, ctx)
  IN r.ok /\ ~r.val

(* An ExplicitlyDisabled that is the negation of Enabled. *)
ExplicitlyDisabled_NotEnabled(k, ctx) == ~BoolInspection_Enabled(InspectBool(k, ctx))

ExplicitlyDisabled(k, ctx) == BoolInspection_ExplicitlyDisabled(InspectBool(k, ctx))

(***************************************************************************)
(* The state machine: the calls user code makes.                           *)
(***************************************************************************)
(* The option lists callers pass to the constructors. *)
UserOptions == {<<>>} \cup {<<WithName(n)>> : n \in Names}

KeyIds == 1..Len(keys)

Handles == 0..Len(ctxs)

BoolKeyIds == {k \in KeyIds : keys[k].bool}

NoResult == [val |-> 0]

Goroutines == 1..NumGoroutines

(* A goroutine that has not been started. *)
Idle ==
  [pc |-> "idle", k |-> 0, ctx |-> 0, value |-> 0, localCtx |-> 0, got |-> 0,
   fn |-> "", opts |-> 0]

Init ==
  /\ keys = <<>>
  /\ ctxs = <<>>
  /\ binder = <<>>
  /\ insp = <<>>
  /\ ret = [op |-> "init", k |-> 0, s |-> 0, out |-> NoResult]
  /\ gor = [g \in Goroutines |-> Idle]
  /\ arrays = <<>>
  /\ slices = <<>>

(* The names a call supplies, in the order the package applies them: the   *)
(* name parameter first, then the WithName options. *)
RECURSIVE NamesOf(_)
NamesOf(options) ==
  IF options = <<>> THEN <<>>
  ELSE (IF Head(options).kind = "name" THEN <<Head(options).name>> ELSE <<>>)
         \o NamesOf(Tail(options))

(* The constructors.  The new key is kept in a package-level variable;     *)
(* at most maxKeys keys are declared.  The result records the names the    *)
(* call supplied and its call site. *)
Construct(op, k, supplied, site) ==
  /\ keys' = Append(keys, k)
  /\ ret' = [op |-> op, k |-> Len(keys) + 1, s |-> 0,
             out |-> [val |-> 0, supplied |-> supplied, site |-> site]]
  /\ UNCHANGED <<ctxs, binder, insp, gor, arrays, slices>>

CallNew(maxKeys) ==
  /\ Len(keys) < maxKeys
  /\ \E V \in Types, options \in UserOptions, site \in UserSites :
       Construct("New", New(V, options, <<site>>), NamesOf(options), site)

CallNewNamed(maxKeys) ==
  /\ Len(keys) < maxKeys
  /\ \E V \in Types, name \in Names, options \in UserOptions, site \in UserSites :
       Construct("NewNamed", NewNamed(V, name, options, <<site>>),
                 <<name>> \o NamesOf(options), site)

CallNewBool(maxKeys) ==
  /\ Len(keys) < maxKeys
  /\ \E options \in UserOptions, site \in UserSites :
       Construct("NewBool", NewBool(options, <<site>>), NamesOf(options), site)

CallNewNamedBool(maxKeys) ==
  /\ Len(keys) < maxKeys
  /\ \E name \in Names, options \in UserOptions, site \in UserSites :
       Construct("NewNamedBool", NewNamedBool(name, options, <<site>>),
                 <<name>> \o NamesOf(options), site)

(* The site recorded for a call whose caller the runtime cannot resolve. *)
NoSite == [file |-> "", line |-> 0]

(* A constructor called where runtime.Caller reports ok = false for the    *)
(* user's frame: no frame lies below the exported constructor. *)
CallUnresolved(maxKeys) ==
  /\ Len(keys) < maxKeys
  /\ \E options \in UserOptions :
       \/ \E V \in Types :
            Construct("New", New(V, options, <<>>), NamesOf(options), NoSite)
       \/ \E V \in Types, name \in Names :
            Construct("NewNamed", NewNamed(V, name, options, <<>>),
                      <<name>> \o NamesOf(options), NoSite)
       \/ Construct("NewBool", NewBool(options, <<>>), NamesOf(options), NoSite)
       \/ \E name \in Names :
            Construct("NewNamedBool", NewNamedBool(name, options, <<>>),
                      <<name>> \o NamesOf(options), NoSite)

(* The string literals of the program: the names it passes and the names   *)
(* its keys have. *)
Literals == Names \cup {String(keys[k]) : k \in KeyIds}

(* k.GoString() evaluated as a fresh construction: the expression is       *)
(* parsed and, if it is a constructor call, the call is made.  The result  *)
(* records the key the expression came from. *)
CallEvalGoString(maxKeys) ==
  /\ Len(keys) < maxKeys
  /\ \E k \in KeyIds, site \in UserSites :
       LET p == Parse(GoString(keys[k]), Literals)
       IN IF p.ok
            THEN /\ keys' = Append(keys, Eval(p.call, site))
                 /\ ret' = [op |-> "Eval", k |-> Len(keys) + 1, s |-> 0,
                            out |-> [val |-> 0, of |-> k, ok |-> TRUE]]
                 /\ UNCHANGED <<ctxs, binder, insp, gor, arrays, slices>>
            ELSE /\ ret' = [op |-> "Eval", k |-> 0, s |-> 0,
                            out |-> [val |-> 0, of |-> k, ok |-> FALSE]]
                 /\ UNCHANGED <<keys, ctxs, binder, insp, gor, arrays, slices>>

(* The binds: key k bound on one of the contexts `parents`, while fewer    *)
(* than maxCtx contexts exist.  A panic leaves the heap as it was. *)
(* A bind under which an Inspection of the same key is a live view: it     *)
(* follows the newly bound value. *)
Bind_Live(op, k, ctx, r) ==
  /\ ctxs' = r.ctxs
  /\ binder' = IF r.panic = "" THEN Append(binder, k) ELSE binder
  /\ ret' = [op |-> op, k |-> k, s |-> ctx, out |-> [val |-> r.ctx, panic |-> r.panic]]
  /\ insp' = IF insp # <<>> /\ r.panic = "" /\ insp[1].i.Key.ident = keys[k].ident
               THEN LET a == TypeAssert(r.ctxs[r.ctx].val, keys[k].V)
                    IN <<[insp[1] EXCEPT !.i.Value = a.val, !.i.Ok = a.ok]>>
               ELSE insp
  /\ UNCHANGED <<keys, gor, arrays, slices>>

Bind(op, k, ctx, r) ==
  /\ ctxs' = r.ctxs
  /\ binder' = IF r.panic = "" THEN Append(binder, k) ELSE binder
  /\ ret' = [op |-> op, k |-> k, s |-> ctx, out |-> [val |-> r.ctx, panic |-> r.panic]]
  /\ UNCHANGED <<keys, insp, gor, arrays, slices>>

CallWithValue(maxCtx, parents) ==
  /\ Len(ctxs) < maxCtx
  /\ \E k \in KeyIds, ctx \in parents :
       \E value \in Values(keys[k].V) :
         Bind("WithValue", k, ctx, WithValue(keys[k], ctx, value))

CallWithEnabled(maxCtx, parents) ==
  /\ Len(ctxs) < maxCtx
  /\ \E k \in BoolKeyIds, ctx \in parents :
       Bind("WithEnabled", k, ctx, WithEnabled(keys[k], ctx))

CallWithDisabled(maxCtx, parents) ==
  /\ Len(ctxs) < maxCtx
  /\ \E k \in BoolKeyIds, ctx \in parents :
       Bind("WithDisabled", k, ctx, WithDisabled(keys[k], ctx))

(* The values through which a program holds key number k: the variable the *)
(* constructor's result was stored in (and its copies, which are equal     *)
(* values), the key[V] a boolKey embeds (the key used as a Key[bool]), and *)
(* the Key field of an Inspection of the key. *)
Copies(k) ==
  {keys[k], downcast(keys[k])} \cup {Inspect(keys[k], h).Key : h \in Handles}

(* WithValue called through one of them. *)
CallWithValueThrough(maxCtx, parents) ==
  /\ Len(ctxs) < maxCtx
  /\ \E k \in KeyIds, ctx \in parents :
       \E c \in Copies(k), value \in Values(keys[k].V) :
         LET r == WithValue(c, ctx, value)
         IN /\ ctxs' = r.ctxs
            /\ binder' = IF r.panic = "" THEN Append(binder, k) ELSE binder
            /\ ret' = [op |-> "Copy.WithValue", k |-> k, s |-> ctx,
                       out |-> [val |-> r.ctx, panic |-> r.panic,
                                through |-> c, value |-> value]]
            /\ UNCHANGED <<keys, insp, gor, arrays, slices>>

(* The values of `any` that code outside the package may store: nil and   *)
(* values of the dynamic types "str", "int" and "impl". *)
Anys == {NilIface} \cup {[t |-> d, v |-> 1] : d \in {"str", "int", "impl"}}

(* Those that are not a V. *)
ForeignValues(V) == {a \in Anys : a.t \notin Implements(V)}

(* A foreign write: a context, derived outside the key's WithValue, whose  *)
(* Value answers the key's identity with a value that is not a V (a        *)
(* context.Context implementation of the caller's own, or a corrupted      *)
(* node).  No key is its binder. *)
CallForeignWrite(maxCtx, parents) ==
  /\ Len(ctxs) < maxCtx
  /\ \E k \in KeyIds, ctx \in parents :
       \E a \in ForeignValues(keys[k].V) :
         /\ ctxs' = Append(ctxs, [parent |-> ctx, key |-> keys[k].ident, val |-> a])
         /\ binder' = Append(binder, 0)
         /\ ret' = [op |-> "ForeignWrite", k |-> k, s |-> ctx,
                    out |-> [val |-> Len(ctxs) + 1, panic |-> ""]]
         /\ UNCHANGED <<keys, insp, gor, arrays, slices>>

(* The reads of a key against one of the contexts `held` by the caller. *)
Read(op, k, ctx, out) ==
  /\ ret' = [op |-> op, k |-> k, s |-> ctx, out |-> out]
  /\ UNCHANGED <<keys, ctxs, binder, insp, gor, arrays, slices>>

CallGet(held) ==
  \E k \in KeyIds, ctx \in held :
    Read("Get", k, ctx, Return(Get(keys[k], ctx)))

CallTryGet(held) ==
  \E k \in KeyIds, ctx \in held :
    Read("TryGet", k, ctx, TryGet(keys[k], ctx))

CallGetOrDefault(held) ==
  \E k \in KeyIds, ctx \in held :
    \E d \in Values(keys[k].V) :
      Read("GetOrDefault", k, ctx,
           [val |-> GetOrDefault(keys[k], ctx, d), default |-> d])

CallMustGet(held) ==
  \E k \in KeyIds, ctx \in held :
    Read("MustGet", k, ctx, MustGet(keys[k], ctx))

CallIsSet(held) ==
  \E k \in KeyIds, ctx \in held :
    Read("IsSet", k, ctx, Return(IsSet(keys[k], ctx)))

CallIsNotSet(held) ==
  \E k \in KeyIds, ctx \in held :
    Read("IsNotSet", k, ctx, Return(IsNotSet(keys[k], ctx)))

CallEnabled(held) ==
  \E k \in BoolKeyIds, ctx \in held :
    Read("Enabled", k, ctx, Return(Enabled(keys[k], ctx)))

CallDisabled(held) ==
  \E k \in BoolKeyIds, ctx \in held :
    Read("Disabled", k, ctx, Return(Disabled(keys[k], ctx)))

CallExplicitlyDisabled(held) ==
  \E k \in BoolKeyIds, ctx \in held :
    Read("ExplicitlyDisabled", k, ctx, Return(ExplicitlyDisabled(keys[k], ctx)))

(* Inspect and InspectBool: the caller keeps the returned Inspection       *)
(* (bool: as a BoolInspection). *)
Hold(op, k, ctx, i, isBool) ==
  /\ insp' = <<[i |-> i, bool |-> isBool]>>
  /\ ret' = [op |-> op, k |-> k, s |-> ctx, out |-> NoResult]
  /\ UNCHANGED <<keys, ctxs, binder, gor, arrays, slices>>

CallInspect(held) ==
  \E k \in KeyIds, ctx \in held :
    Hold("Inspect", k, ctx, Inspect(keys[k], ctx), FALSE)

CallInspectBool(held) ==
  \E k \in BoolKeyIds, ctx \in held :
    Hold("InspectBool", k, ctx, InspectBool(keys[k], ctx), TRUE)

(* Inspection and BoolInspection are structs with exported fields: user    *)
(* code can also write one as a composite literal. *)
CallLiteral ==
  \E k \in KeyIds, ok \in BOOLEAN :
    \E value \in Values(keys[k].V) :
      Hold("Literal", k, NilContext,
           [Key |-> keys[k], Value |-> value, Ok |-> ok], keys[k].bool)

(* The methods of the Inspection the caller holds. *)
Held == insp[1].i

Method(op, out) ==
  /\ insp # <<>>
  /\ ret' = [op |-> op, k |-> Held.Key.ident, s |-> NilContext, out |-> out]
  /\ UNCHANGED <<keys, ctxs, binder, insp, gor, arrays, slices>>

CallInspection_Get ==
  /\ insp # <<>>
  /\ Method("Inspection.Get", Return(Inspection_Get(Held)))

CallInspection_TryGet ==
  /\ insp # <<>>
  /\ Method("Inspection.TryGet", Inspection_TryGet(Held))

CallInspection_GetOrDefault ==
  /\ insp # <<>>
  /\ \E d \in Values(Held.Key.V) :
       Method("Inspection.GetOrDefault",
              [val |-> Inspection_GetOrDefault(Held, d), default |-> d])

CallInspection_MustGet ==
  /\ insp # <<>>
  /\ Method("Inspection.MustGet", Inspection_MustGet(Held))

CallInspection_IsSet ==
  /\ insp # <<>>
  /\ Method("Inspection.IsSet", Return(Inspection_IsSet(Held)))

CallInspection_IsNotSet ==
  /\ insp # <<>>
  /\ Method("Inspection.IsNotSet", Return(Inspection_IsNotSet(Held)))

CallInspection_String ==
  /\ insp # <<>>
  /\ Method("Inspection.String", Return(Inspection_String(Held)))

CallBoolInspection_Enabled ==
  /\ insp # <<>> /\ insp[1].bool
  /\ Method("BoolInspection.Enabled", Return(BoolInspection_Enabled(Held)))

CallBoolInspection_Disabled ==
  /\ insp # <<>> /\ insp[1].bool
  /\ Method("BoolInspection.Disabled", Return(BoolInspection_Disabled(Held)))

CallBoolInspection_ExplicitlyDisabled ==
  /\ insp # <<>> /\ insp[1].bool
  /\ Method("BoolInspection.ExplicitlyDisabled",
            Return(BoolInspection_ExplicitlyDisabled(Held)))

(***************************************************************************)
(* Goroutines that share one key and one parent context:                   *)
(*   go func(value V) { localCtx := key.WithValue(ctx, value)              *)
(*                      got := key.Get(localCtx) }(v)                      *)
(* Each statement is one step; the steps of different goroutines           *)
(* interleave.  The key and ctx are read-only copies captured by the       *)
(* closure; the allocation of the new valueCtx is the only write.          *)
(***************************************************************************)
Started == {g \in Goroutines : gor[g].pc # "idle"}

(* The main goroutine's part, before it starts the others: it declares the *)
(* keys and derives the context they will share. *)
DeclareKeyMain(maxKeys) ==
  /\ Started = {}
  /\ \/ CallNew(maxKeys)
     \/ CallNewNamed(maxKeys)
     \/ CallNewBool(maxKeys)
     \/ CallNewNamedBool(maxKeys)

CallWithValueMain(maxShared) ==
  /\ Started = {}
  /\ CallWithValue(maxShared, {Len(ctxs)})

(* go func(value){...}(value): the closure captures key and ctx. *)
CallGo ==
  \E g \in Goroutines \ Started :
    \E k \in IF Started = {} THEN KeyIds ELSE {gor[h].k : h \in Started} :
      \E ctx \in IF Started = {} THEN {Len(ctxs)} ELSE {gor[h].ctx : h \in Started} :
        \E value \in Values(keys[k].V) :
          /\ gor' = [gor EXCEPT ![g] = [Idle EXCEPT !.pc = "bind", !.k = k,
                                                    !.ctx = ctx, !.value = value]]
          /\ ret' = [op |-> "go", k |-> k, s |-> ctx, out |-> NoResult]
          /\ UNCHANGED <<keys, ctxs, binder, insp, arrays, slices>>

(* A WithValue that hands every goroutine the same child of the shared     *)
(* parent and stores the value in it. *)
GoWithValue_SharedChild(g) ==
  /\ gor[g].pc = "bind"
  /\ LET k == gor[g].k
         a == ToAny(keys[k].V, gor[g].value)
         same == {h \in 1..Len(ctxs) : /\ ctxs[h].parent = gor[g].ctx
                                       /\ ctxs[h].key = keys[k].ident
                                       /\ binder[h] = k}
     IN IF same = {}
          THEN /\ ctxs' = Append(ctxs, [parent |-> gor[g].ctx, key |-> keys[k].ident, val |-> a])
               /\ binder' = Append(binder, k)
               /\ gor' = [gor EXCEPT ![g].pc = "read", ![g].localCtx = Len(ctxs) + 1]
          ELSE LET h == CHOOSE h \in same : TRUE
               IN /\ ctxs' = [ctxs EXCEPT ![h].val = a]
                  /\ binder' = binder
                  /\ gor' = [gor EXCEPT ![g].pc = "read", ![g].localCtx = h]
  /\ ret' = [op |-> "go", k |-> gor[g].k, s |-> gor[g].ctx, out |-> NoResult]
  /\ UNCHANGED <<keys, insp, arrays, slices>>

(* localCtx := key.WithValue(ctx, value) *)
GoWithValue(g) ==
  /\ gor[g].pc = "bind"
  /\ LET r == WithValue(keys[gor[g].k], gor[g].ctx, gor[g].value)
     IN /\ ctxs' = r.ctxs
        /\ binder' = IF r.panic = "" THEN Append(binder, gor[g].k) ELSE binder
        /\ gor' = [gor EXCEPT ![g].pc = IF r.panic = "" THEN "read" ELSE "panic",
                              ![g].localCtx = r.ctx]
  /\ ret' = [op |-> "go", k |-> gor[g].k, s |-> gor[g].ctx, out |-> NoResult]
  /\ UNCHANGED <<keys, insp, arrays, slices>>

(* got := key.Get(localCtx) *)
GoGet(g) ==
  /\ gor[g].pc = "read"
  /\ gor' = [gor EXCEPT ![g].pc = "done",
                        ![g].got = Get(keys[gor[g].k], gor[g].localCtx)]
  /\ ret' = [op |-> "go", k |-> gor[g].k, s |-> gor[g].ctx, out |-> NoResult]
  /\ UNCHANGED <<keys, ctxs, binder, insp, arrays, slices>>

GoBind == \E g \in Goroutines : GoWithValue(g)

GoRead == \E g \in Goroutines : GoGet(g)

(***************************************************************************)
(* Two derivations from one context.  A program takes two bindings (A, a)  *)
(* and (B, b) and a context s, and derives B.WithValue(A.WithValue(s, a),  *)
(* b) and then A.WithValue(B.WithValue(s, b), a).  Derivation 1 holds      *)
(* (A, a) in k and value, derivation 2 holds (B, b); each binds its own    *)
(* pair first and the other's second, and keeps its newest context in      *)
(* localCtx.                                                               *)
(***************************************************************************)
Derivations == {1, 2}

CallDerive ==
  /\ Started = {}
  /\ \E A \in KeyIds, B \in KeyIds :
       \E a \in Values(keys[A].V), b \in Values(keys[B].V) :
         LET s == Len(ctxs)
             d(k, value) == [Idle EXCEPT !.pc = "first", !.k = k, !.ctx = s,
                                         !.value = value, !.localCtx = s]
         IN /\ gor' = [gor EXCEPT ![1] = d(A, a), ![2] = d(B, b)]
            /\ ret' = [op |-> "go", k |-> A, s |-> s, out |-> NoResult]
            /\ UNCHANGED <<keys, ctxs, binder, insp, arrays, slices>>

(* The next WithValue of derivation g; the second derivation is made after *)
(* the first. *)
DeriveWithValue(g) ==
  /\ gor[g].pc \in {"first", "second"}
  /\ g = 2 => gor[1].pc = "done"
  /\ LET from == IF gor[g].pc = "first" THEN g ELSE 3 - g
         k == gor[from].k
         r == WithValue(keys[k], gor[g].localCtx, gor[from].value)
     IN /\ ctxs' = r.ctxs
        /\ binder' = IF r.panic = "" THEN Append(binder, k) ELSE binder
        /\ gor' = [gor EXCEPT ![g].pc = IF r.panic # "" THEN "panic"
                                        ELSE IF gor[g].pc = "first" THEN "second"
                                        ELSE "done",
                              ![g].localCtx = r.ctx]
        /\ ret' = [op |-> "go", k |-> k, s |-> gor[g].localCtx, out |-> NoResult]
  /\ UNCHANGED <<keys, insp, arrays, slices>>

DeriveBind == \E g \in Derivations : DeriveWithValue(g)

(* The context a program that rebinds one variable holds:                  *)
(* ctx = k.WithValue(ctx, v). *)
Current == {Len(ctxs)}

(* Spec: a program that declares keys and binds them from any context it   *)
(* holds, so that the contexts form a tree. *)
Next ==
  \/ CallNew(MaxKeys)
  \/ CallNewNamed(MaxKeys)
  \/ CallNewBool(MaxKeys)
  \/ CallNewNamedBool(MaxKeys)
  \/ CallWithValue(MaxCtx, Handles)
  \/ CallWithEnabled(MaxCtx, Handles)
  \/ CallWithDisabled(MaxCtx, Handles)

Spec == Init /\ [][Next]_vars

(* SpecChain: a program that declares keys and rebinds one context         *)
(* variable, so that the contexts form one chain. *)
NextChain ==
  \/ CallNew(MaxKeys)
  \/ CallNewNamed(MaxKeys)
  \/ CallNewBool(MaxKeys)
  \/ CallNewNamedBool(MaxKeys)
  \/ CallWithValue(MaxChain, Current)
  \/ CallWithEnabled(MaxChain, Current)
  \/ CallWithDisabled(MaxChain, Current)

SpecChain == Init /\ [][NextChain]_vars


(* SpecRead: a program that rebinds one context variable and reads its     *)
(* keys against it. *)
NextRead ==
  \/ CallNew(MaxChainKeys)
  \/ CallNewNamed(MaxChainKeys)
  \/ CallNewBool(MaxChainKeys)
  \/ CallNewNamedBool(MaxChainKeys)
  \/ CallWithValue(MaxChain, Current)
  \/ CallWithEnabled(MaxChain, Current)
  \/ CallWithDisabled(MaxChain, Current)
  \/ CallGet(Current)
  \/ CallTryGet(Current)
  \/ CallGetOrDefault(Current)
  \/ CallMustGet(Current)
  \/ CallIsSet(Current)
  \/ CallIsNotSet(Current)
  \/ CallEnabled(Current)
  \/ CallDisabled(Current)
  \/ CallExplicitlyDisabled(Current)

SpecRead == Init /\ [][NextRead]_vars

CallBoolInspection_String ==
  /\ insp # <<>> /\ insp[1].bool
  /\ Method("BoolInspection.String", Return(BoolInspection_String(Held)))

(* SpecInsp: a program that rebinds one context variable, takes            *)
(* Inspections and calls their methods. *)
NextInsp ==
  \/ CallNew(MaxChainKeys)
  \/ CallNewNamed(MaxChainKeys)
  \/ CallNewBool(MaxChainKeys)
  \/ CallNewNamedBool(MaxChainKeys)
  \/ CallWithValue(MaxCtx, Current)
  \/ CallWithEnabled(MaxCtx, Current)
  \/ CallWithDisabled(MaxCtx, Current)
  \/ CallMustGet(Current)
  \/ CallInspect(Current)
  \/ CallInspectBool(Current)
  \/ CallLiteral
  \/ CallInspection_Get
  \/ CallInspection_TryGet
  \/ CallInspection_GetOrDefault
  \/ CallInspection_MustGet
  \/ CallInspection_IsSet
  \/ CallInspection_IsNotSet
  \/ CallInspection_String
  \/ CallBoolInspection_Enabled
  \/ CallBoolInspection_Disabled
  \/ CallBoolInspection_ExplicitlyDisabled
  \/ CallBoolInspection_String

SpecInsp == Init /\ [][NextInsp]_vars

(* SpecForeign: a program that rebinds one context variable, also through  *)
(* foreign writes, and reads its keys against it. *)
NextForeign ==
  \/ CallNew(MaxChainKeys)
  \/ CallNewNamed(MaxChainKeys)
  \/ CallNewBool(MaxChainKeys)
  \/ CallNewNamedBool(MaxChainKeys)
  \/ CallWithValue(MaxCtx, Current)
  \/ CallWithEnabled(MaxCtx, Current)
  \/ CallWithDisabled(MaxCtx, Current)
  \/ CallForeignWrite(MaxCtx, Current)
  \/ CallGet(Current)
  \/ CallTryGet(Current)
  \/ CallGetOrDefault(Current)
  \/ CallMustGet(Current)
  \/ CallIsSet(Current)

SpecForeign == Init /\ [][NextForeign]_vars

(* SpecConc: a program that declares keys, derives a context and starts    *)
(* goroutines that share a key and that context. *)
NextConc ==
  \/ DeclareKeyMain(MaxChainKeys)
  \/ CallWithValueMain(MaxShared)
  \/ CallGo
  \/ GoBind
  \/ GoRead

SpecConc == Init /\ [][NextConc]_vars

(* SpecNames: a program that declares keys. *)
NextNames ==
  \/ CallNew(MaxKeys)
  \/ CallNewNamed(MaxKeys)
  \/ CallNewBool(MaxKeys)
  \/ CallNewNamedBool(MaxKeys)

SpecNames == Init /\ [][NextNames]_vars

(* SpecGo: a program that declares keys, some of them by evaluating the    *)
(* GoString of another, and rebinds one context variable. *)
NextGo ==
  \/ CallNew(MaxKeys)
  \/ CallNewNamed(MaxKeys)
  \/ CallNewBool(MaxKeys)
  \/ CallNewNamedBool(MaxKeys)
  \/ CallEvalGoString(MaxKeys)
  \/ CallWithValue(MaxCtx, Current)
  \/ CallWithEnabled(MaxCtx, Current)
  \/ CallWithDisabled(MaxCtx, Current)

SpecGo == Init /\ [][NextGo]_vars

(***************************************************************************)
(* The chain of a context, from the history of the binds.                  *)
(***************************************************************************)
Nodes == 1..Len(ctxs)

(* The valueCtx nodes from ctx up to the root. *)
RECURSIVE Path(_)
Path(ctx) == IF ctx = Background THEN {} ELSE {ctx} \cup Path(ctxs[ctx].parent)

(* The nodes of ctx's chain that key number k bound. *)
BoundBy(k, ctx) == {h \in Path(ctx) : binder[h] = k}

(* The most recent of them (a child is allocated after its parent). *)
LastBind(k, ctx) == CHOOSE h \in BoundBy(k, ctx) : \A g \in BoundBy(k, ctx) : g <= h

(* Every method of an Inspection i (isBool: held as a BoolInspection). *)
ReadsOf(i, isBool) ==
  <<Inspection_TryGet(i), Inspection_Get(i), Inspection_IsSet(i),
    Inspection_IsNotSet(i), Inspection_MustGet(i), i,
    [d \in Values(i.Key.V) |-> Inspection_GetOrDefault(i, d)],
    IF isBool
      THEN <<BoolInspection_Enabled(i), BoolInspection_Disabled(i),
             BoolInspection_ExplicitlyDisabled(i)>>
      ELSE <<>> >>

(* Every read of key number k against ctx: each key method is its          *)
(* Inspection method applied to k.Inspect(ctx), which is taken once. *)
Reads(k, ctx) ==
  CHOOSE r \in {ReadsOf(i, keys[k].bool) : i \in {Inspect(keys[k], ctx)}} : TRUE

BindOps == {"WithValue", "WithEnabled", "WithDisabled"}

(* SpecCopy: a program that rebinds one context variable through its keys, *)
(* their copies and the keys its Inspections carry. *)
NextCopy ==
  \/ CallNew(MaxChainKeys)
  \/ CallNewNamed(MaxChainKeys)
  \/ CallNewBool(MaxChainKeys)
  \/ CallNewNamedBool(MaxChainKeys)
  \/ CallWithValue(MaxChain, Current)
  \/ CallWithEnabled(MaxChain, Current)
  \/ CallWithDisabled(MaxChain, Current)
  \/ CallWithValueThrough(MaxChain, Current)

SpecCopy == Init /\ [][NextCopy]_vars

(* SpecOrder: a program that declares keys, derives a context and then     *)
(* derives two contexts from it by the same two binds in the two orders.   *)
NextOrder ==
  \/ DeclareKeyMain(MaxKeys)
  \/ CallWithValueMain(MaxShared)
  \/ CallDerive
  \/ DeriveBind

SpecOrder == Init /\ [][NextOrder]_vars

(* SpecNoSite: a program that declares keys, also where the caller cannot  *)
(* be resolved, rebinds one context variable and reads its keys. *)
NextNoSite ==
  \/ CallNew(MaxChainKeys)
  \/ CallNewNamed(MaxChainKeys)
  \/ CallNewBool(MaxChainKeys)
  \/ CallNewNamedBool(MaxChainKeys)
  \/ CallUnresolved(MaxChainKeys)
  \/ CallWithValue(MaxChain, Current)
  \/ CallWithEnabled(MaxChain, Current)
  \/ CallWithDisabled(MaxChain, Current)
  \/ CallGet(Current)
  \/ CallMustGet(Current)

SpecNoSite == Init /\ [][NextNoSite]_vars

(***************************************************************************)
(* C1. Identity uniqueness: two keys from two constructor calls have       *)
(* different identities, whatever their types and names; a bind under A    *)
(* leaves what B reads as it was in the parent; B reads not-set on A's     *)
(* scope when B was never bound on the chain, and when both are bound      *)
(* each reads back the value of its own most recent bind.                  *)
(***************************************************************************)
C1_IdentityUniqueness ==
  \A a \in KeyIds, b \in KeyIds :
    a # b =>
      /\ keys[a].ident # keys[b].ident
      /\ \A h \in Nodes :
           binder[h] = a =>
             /\ TryGet(keys[b], h) = TryGet(keys[b], ctxs[h].parent)
             /\ BoundBy(b, h) = {} => ~TryGet(keys[b], h).ok
             /\ BoundBy(b, h) # {} =>
                  /\ ToAny(keys[b].V, TryGet(keys[b], h).val)
                       = ctxs[LastBind(b, h)].val
                  /\ ToAny(keys[a].V, TryGet(keys[a], h).val) = ctxs[h].val

(* Two keys of one type and one name; A is bound and read back, B was      *)
(* never bound on the chain. *)
C1_Witness ==
  \E a \in KeyIds, b \in KeyIds, h \in Nodes :
    /\ a # b
    /\ keys[a].V = keys[b].V
    /\ keys[a].name = keys[b].name
    /\ binder[h] = a
    /\ BoundBy(b, h) = {}
    /\ TryGet(keys[a], h).ok
    /\ ~TryGet(keys[b], h).ok

(***************************************************************************)
(* C2. Immutability of the parent: no step changes what any read of any    *)
(* existing key returns against any existing context; a bind shows only    *)
(* in the context it returns.  Every read is computed from the Inspection  *)
(* taken, so the reads are compared where the Inspection is not the same.  *)
(***************************************************************************)
C2_ParentUnchanged ==
  [][ctxs' # ctxs =>
       \A k \in KeyIds, s \in Handles :
         \/ Inspect(keys[k], s)' = Inspect(keys[k], s) /\ keys[k]' = keys[k]
         \/ Reads(k, s)' = Reads(k, s)]_vars

(* A bind on a context other than the root has returned a context that     *)
(* reads differently from its parent. *)
C2_Witness ==
  /\ ret.op \in BindOps
  /\ ret.s # Background
  /\ ret.out.panic = ""
  /\ TryGet(keys[ret.k], ret.out.val) # TryGet(keys[ret.k], ret.s)

(***************************************************************************)
(* C3. Frame of a bind: the context a bind of k returns gives every key    *)
(* of another identity the (value, presence) its parent gives.             *)
(***************************************************************************)
C3_BindFrame ==
  \A h \in Nodes, j \in KeyIds :
    keys[j].ident # ctxs[h].key =>
      TryGet(keys[j], h) = TryGet(keys[j], ctxs[h].parent)

(* Key j is set in the parent, and the child bound under another key       *)
(* still reads it; the child's own key reads differently from the parent.  *)
C3_Witness ==
  \E h \in Nodes, j \in KeyIds :
    /\ keys[j].ident # ctxs[h].key
    /\ TryGet(keys[j], ctxs[h].parent).ok
    /\ TryGet(keys[j], h).ok
    /\ TryGet(keys[binder[h]], h) # TryGet(keys[binder[h]], ctxs[h].parent)

(***************************************************************************)
(* C4. Zero value versus unset: for every value type, a context returned   *)
(* by binding zero(V) under k has k set: IsSet is true, TryGet returns     *)
(* (zero(V), true), MustGet returns zero(V) without a panic and            *)
(* GetOrDefault returns zero(V) whatever the default; where k was never    *)
(* bound TryGet returns (zero(V), false).                                  *)
(***************************************************************************)
BoundZero(k, h) ==
  /\ h \in Nodes
  /\ binder[h] = k
  /\ ctxs[h].val = ToAny(keys[k].V, Zero(keys[k].V))

C4_ZeroValueIsSet ==
  \A k \in KeyIds, h \in Handles :
    LET z == Zero(keys[k].V)
    IN /\ BoundZero(k, h) =>
            /\ IsSet(keys[k], h)
            /\ TryGet(keys[k], h) = [val |-> z, ok |-> TRUE]
            /\ MustGet(keys[k], h) = Return(z)
            /\ \A d \in Values(keys[k].V) : GetOrDefault(keys[k], h, d) = z
       /\ BoundBy(k, h) = {} => TryGet(keys[k], h) = [val |-> z, ok |-> FALSE]

(***************************************************************************)
(* C5. Three-state table of a BoolKey b: where b was never bound           *)
(* Enabled=false, Disabled=true, ExplicitlyDisabled=false; on a context    *)
(* returned by WithDisabled false, true, true; on a context returned by    *)
(* WithEnabled true, false, false.                                         *)
(***************************************************************************)
Flags(k, ctx) ==
  <<Enabled(keys[k], ctx), Disabled(keys[k], ctx), ExplicitlyDisabled(keys[k], ctx)>>

C5_ThreeStateTable ==
  /\ \A b \in BoolKeyIds, h \in Handles :
       /\ BoundBy(b, h) = {} => Flags(b, h) = <<FALSE, TRUE, FALSE>>
       /\ (h \in Nodes /\ binder[h] = b /\ ctxs[h].val = ToAny("bool", FALSE))
            => Flags(b, h) = <<FALSE, TRUE, TRUE>>
       /\ (h \in Nodes /\ binder[h] = b /\ ctxs[h].val = ToAny("bool", TRUE))
            => Flags(b, h) = <<TRUE, FALSE, FALSE>>
  /\ (ret.op = "WithDisabled" /\ ret.out.panic = "")
       => Flags(ret.k, ret.out.val) = <<FALSE, TRUE, TRUE>>
  /\ (ret.op = "WithEnabled" /\ ret.out.panic = "")
       => Flags(ret.k, ret.out.val) = <<TRUE, FALSE, FALSE>>
  /\ ret.op = "Enabled" => ret.out.val = Flags(ret.k, ret.s)[1]
  /\ ret.op = "Disabled" => ret.out.val = Flags(ret.k, ret.s)[2]
  /\ ret.op = "ExplicitlyDisabled" => ret.out.val = Flags(ret.k, ret.s)[3]

(* ExplicitlyDisabled has returned true on a context that WithDisabled     *)
(* returned, whose parent was enabled. *)
C5_Witness ==
  /\ ret.op = "ExplicitlyDisabled"
  /\ ret.out.val
  /\ ret.s \in Nodes
  /\ Flags(ret.k, ctxs[ret.s].parent) = <<TRUE, FALSE, FALSE>>
  /\ Flags(ret.k, Background) = <<FALSE, TRUE, FALSE>>

(***************************************************************************)
(* C6. Three-state invariant: on every context and in every BoolInspection *)
(* value exactly one of IsNotSet, Enabled, ExplicitlyDisabled is true,     *)
(* Disabled equals not Enabled, and Enabled is never true while the        *)
(* presence flag is false.                                                 *)
(***************************************************************************)
ExactlyOne(a, b, c) ==
  \/ a /\ ~b /\ ~c
  \/ ~a /\ b /\ ~c
  \/ ~a /\ ~b /\ c

ThreeState(i) ==
  /\ ExactlyOne(Inspection_IsNotSet(i), BoolInspection_Enabled(i),
                BoolInspection_ExplicitlyDisabled(i))
  /\ BoolInspection_Disabled(i) = ~BoolInspection_Enabled(i)
  /\ BoolInspection_Enabled(i) => Inspection_IsSet(i)

C6_OnContexts ==
  \A b \in BoolKeyIds, h \in Handles : ThreeState(InspectBool(keys[b], h))

C6_ThreeStateInvariant ==
  /\ C6_OnContexts
  /\ (insp # <<>> /\ insp[1].bool) => ThreeState(Held)

(***************************************************************************)
(* C7. k.MustGet(s) and k.Inspect(s).MustGet() return the bound value when *)
(* k is set on s, and otherwise panic with "key <name> is not set in       *)
(* context", <name> being k.String(); the panic reaches the caller of      *)
(* MustGet as it was raised.                                               *)
(***************************************************************************)
MustGetContract(k, h, r) ==
  IF BoundBy(k, h) # {}
    THEN /\ r.panic = ""
         /\ ToAny(keys[k].V, r.val) = ctxs[LastBind(k, h)].val
    ELSE r.panic = "key " \o String(keys[k]) \o " is not set in context"

C7_MustGet ==
  /\ \A k \in KeyIds, h \in Handles :
       /\ MustGetContract(k, h, MustGet(keys[k], h))
       /\ MustGetContract(k, h, Inspection_MustGet(Inspect(keys[k], h)))
  /\ ret.op = "MustGet" => MustGetContract(ret.k, ret.s, ret.out)
  /\ (ret.op = "Inspection.MustGet" /\ \E h \in Handles : Held = Inspect(Held.Key, h))
       => \E h \in Handles : /\ Held = Inspect(Held.Key, h)
                             /\ MustGetContract(Held.Key.ident, h, ret.out)

(***************************************************************************)
(* C8. Totality: on every context reachable from the root by binds, the    *)
(* binds and every read but MustGet complete without a panic; MustGet      *)
(* panics only when the presence flag is false.                            *)
(***************************************************************************)
TotalOps ==
  BindOps \cup {"Get", "IsSet", "IsNotSet", "Enabled", "Disabled", "ExplicitlyDisabled"}

C8_Totality ==
  /\ \A k \in KeyIds, h \in Handles :
       /\ \A v \in Values(keys[k].V) : WithValue(keys[k], h, v).panic = ""
       /\ keys[k].bool => /\ WithEnabled(keys[k], h).panic = ""
                          /\ WithDisabled(keys[k], h).panic = ""
       /\ MustGet(keys[k], h).panic # "" => ~TryGet(keys[k], h).ok
       /\ TryGet(keys[k], h).ok => MustGet(keys[k], h).panic = ""
  /\ ret.op \in TotalOps => ret.out.panic = ""
  /\ ret.op \in BindOps => ret.out.val = Len(ctxs)
  /\ (ret.op = "MustGet" /\ ret.out.panic # "") => ~TryGet(keys[ret.k], ret.s).ok

(* The last bind of a chain of full length has completed; MustGet returns  *)
(* on the context it produced and panics on the root. *)
C8_Witness ==
  /\ ret.op \in BindOps
  /\ ret.out = [val |-> MaxChain, panic |-> ""]
  /\ MustGet(keys[ret.k], MaxChain).panic = ""
  /\ MustGet(keys[ret.k], Background).panic # ""

(***************************************************************************)
(* C9. Inspection freeze: the Inspection that k.Inspect(s) or              *)
(* k.InspectBool(s) returns carries the value and presence flag of k on s, *)
(* and no later step (a bind under k or another key, a read, a method      *)
(* call) changes what its TryGet, IsSet, Get and String return.            *)
(***************************************************************************)
HeldReads ==
  <<Inspection_TryGet(Held), Inspection_IsSet(Held), Inspection_Get(Held),
    Inspection_String(Held)>>

C9_InspectionFreeze ==
  [][/\ ret'.op \in {"Inspect", "InspectBool"}
          => (/\ Held.Key = downcast(keys[ret.k])
              /\ Inspection_TryGet(Held) = TryGet(keys[ret.k], ret.s)
              /\ Inspection_IsSet(Held) = IsSet(keys[ret.k], ret.s))'
     /\ (insp # <<>> /\ ret'.op \notin {"Inspect", "InspectBool", "Literal"})
          => /\ insp' # <<>>
             /\ HeldReads' = HeldReads]_vars

(* An Inspection of k taken where k was not set is held, k has since been  *)
(* bound on a derived context, and the Inspection still reports not-set.   *)
C9_Witness ==
  /\ insp # <<>>
  /\ ret.op \in BindOps
  /\ ret.k = Held.Key.ident
  /\ Held = Inspect(Held.Key, ret.s)
  /\ Inspection_IsNotSet(Held)
  /\ IsSet(keys[ret.k], ret.out.val)

(***************************************************************************)
(* C10. Nearest bind wins: on every context of every chain of binds, the   *)
(* value read for k is the value of the most recent bind under k on the    *)
(* chain, whatever other keys were bound in between; a BoolKey reports the *)
(* state its last bind asked for, and earlier contexts keep their own.     *)
(***************************************************************************)
C10_NearestBindWins ==
  /\ \A k \in KeyIds, h \in Handles :
       BoundBy(k, h) # {} =>
         LET last == ctxs[LastBind(k, h)].val
         IN /\ ToAny(keys[k].V, Get(keys[k], h)) = last
            /\ ToAny(keys[k].V, TryGet(keys[k], h).val) = last
            /\ keys[k].bool =>
                 Flags(k, h) = IF last = ToAny("bool", TRUE)
                                 THEN <<TRUE, FALSE, FALSE>>
                                 ELSE <<FALSE, TRUE, TRUE>>
  /\ (ret.op \in BindOps /\ ret.out.panic = "")
       => LastBind(ret.k, ret.out.val) = ret.out.val

(* WithEnabled -> WithDisabled -> WithEnabled under one BoolKey: the three *)
(* contexts report enabled, explicitly disabled, enabled. *)
C10_Witness ==
  /\ Len(ctxs) = 3
  /\ ret.op = "WithEnabled"
  /\ \A h \in 1..3 : binder[h] = ret.k /\ ctxs[h].parent = h - 1
  /\ Flags(ret.k, 1) = <<TRUE, FALSE, FALSE>>
  /\ Flags(ret.k, 2) = <<FALSE, TRUE, TRUE>>
  /\ Flags(ret.k, 3) = <<TRUE, FALSE, FALSE>>

(***************************************************************************)
(* C11. No unbind for boolean keys: once a BoolKey b is set on a context   *)
(* (by WithEnabled, WithDisabled or WithValue), IsSet is true on every     *)
(* context derived from it by binds of any keys; no descendant has b back  *)
(* in the not-present state.                                               *)
(***************************************************************************)
C11_NoUnbind ==
  /\ \A b \in BoolKeyIds, d \in Nodes :
       /\ binder[d] = b => IsSet(keys[b], d)
       /\ (\E h \in Path(d) : IsSet(keys[b], h))
            => /\ IsSet(keys[b], d)
               /\ ~IsNotSet(keys[b], d)
               /\ Flags(b, d) # <<FALSE, TRUE, FALSE>>
  /\ (ret.op \in BindOps /\ ret.out.panic = "")
       => \A b \in BoolKeyIds :
            IsSet(keys[b], ret.s) => IsSet(keys[b], ret.out.val)

(* b was disabled on a context, another key and then b again were bound on *)
(* top of it, and b is set on all three contexts. *)
C11_Witness ==
  /\ Len(ctxs) = 3
  /\ \E b \in BoolKeyIds :
       /\ binder[1] = b
       /\ binder[2] # b
       /\ ExplicitlyDisabled(keys[b], 1)
       /\ ExplicitlyDisabled(keys[b], 2)
       /\ IsSet(keys[b], 3)
       /\ Path(3) = {1, 2, 3}

(***************************************************************************)
(* C12. Presence is independent of the value's content: for every value    *)
(* type, IsSet, the flag of TryGet and the Ok of Inspect are true on a     *)
(* context exactly when some bind under the key occurs on its chain,       *)
(* whatever was bound (a nil pointer and a nil interface value included);  *)
(* a key set on a context is set on every context derived from it.         *)
(***************************************************************************)
C12_PresenceIffBound ==
  \A k \in KeyIds, h \in Handles :
    LET bound == BoundBy(k, h) # {}
    IN /\ IsSet(keys[k], h) = bound
       /\ IsNotSet(keys[k], h) = ~bound
       /\ TryGet(keys[k], h).ok = bound
       /\ Inspect(keys[k], h).Ok = bound
       /\ \A d \in Nodes :
            (h \in Path(d) /\ IsSet(keys[k], h)) => IsSet(keys[k], d)

(***************************************************************************)
(* C13. The reads agree with TryGet: with (v, ok) = k.TryGet(s),           *)
(* IsSet(s) = ok, IsNotSet(s) = ~ok, Get(s) = v, v is the zero value of V  *)
(* whenever ok is false, and GetOrDefault(s, d) is v if ok and d if not.   *)
(***************************************************************************)
Agrees(k, h) ==
  LET r == TryGet(keys[k], h)
  IN /\ IsSet(keys[k], h) = r.ok
     /\ IsNotSet(keys[k], h) = ~r.ok
     /\ IsSet(keys[k], h) # IsNotSet(keys[k], h)
     /\ Get(keys[k], h) = r.val
     /\ ~r.ok => r.val = Zero(keys[k].V)
     /\ \A d \in Values(keys[k].V) :
          GetOrDefault(keys[k], h, d) = IF r.ok THEN r.val ELSE d

C13_ReadsAgree ==
  /\ \A k \in KeyIds, h \in Handles : Agrees(k, h)
  /\ ret.op = "TryGet" => ret.out = TryGet(keys[ret.k], ret.s)
  /\ ret.op = "Get" => ret.out.val = TryGet(keys[ret.k], ret.s).val
  /\ ret.op = "IsSet" => ret.out.val = TryGet(keys[ret.k], ret.s).ok
  /\ ret.op = "IsNotSet" => ret.out.val = ~TryGet(keys[ret.k], ret.s).ok
  /\ ret.op = "GetOrDefault"
       => ret.out.val = IF TryGet(keys[ret.k], ret.s).ok
                          THEN TryGet(keys[ret.k], ret.s).val
                          ELSE ret.out.default

(* GetOrDefault has returned a bound zero value although the fallback was  *)
(* another value. *)
C13_Witness ==
  /\ ret.op = "GetOrDefault"
  /\ TryGet(keys[ret.k], ret.s) = [val |-> Zero(keys[ret.k].V), ok |-> TRUE]
  /\ ret.out.default # Zero(keys[ret.k].V)
  /\ ret.out.val = Zero(keys[ret.k].V)

(***************************************************************************)
(* C14. Type safety on a foreign write: where the context holds, under a   *)
(* key's identity, a value whose type is not V, TryGet returns             *)
(* (zero(V), false), Get returns zero(V), IsSet is false, GetOrDefault     *)
(* returns the fallback and MustGet panics with the key-not-set message;   *)
(* no read panics on the type and none returns a value of another type.    *)
(***************************************************************************)
HoldsForeign(k, h) ==
  /\ h \in Nodes
  /\ Value(h, keys[k].ident).t \notin {"nil"} \cup Implements(keys[k].V)

IsV(V, x) == x = Zero(V) \/ ToAny(V, x).t \in Implements(V)

C14_ForeignWrite ==
  /\ \A k \in KeyIds, h \in Handles :
       /\ HoldsForeign(k, h) =>
            /\ TryGet(keys[k], h) = [val |-> Zero(keys[k].V), ok |-> FALSE]
            /\ Get(keys[k], h) = Zero(keys[k].V)
            /\ ~IsSet(keys[k], h)
            /\ \A d \in Values(keys[k].V) : GetOrDefault(keys[k], h, d) = d
            /\ MustGet(keys[k], h).panic = NotSetMessage(String(keys[k]))
       /\ IsV(keys[k].V, Get(keys[k], h))
       /\ IsV(keys[k].V, TryGet(keys[k], h).val)
  /\ (ret.op \in {"TryGet", "Get", "IsSet", "GetOrDefault", "MustGet"}
        /\ HoldsForeign(ret.k, ret.s))
       => CASE ret.op = "TryGet"
                 -> ret.out = [val |-> Zero(keys[ret.k].V), ok |-> FALSE]
            [] ret.op = "Get" -> ret.out = Return(Zero(keys[ret.k].V))
            [] ret.op = "IsSet" -> ret.out = Return(FALSE)
            [] ret.op = "GetOrDefault" -> ret.out.val = ret.out.default
            [] OTHER -> ret.out.panic = NotSetMessage(String(keys[ret.k]))

(* MustGet has panicked on a context where a foreign value of another type *)
(* shadows a value bound through the key. *)
C14_Witness ==
  /\ ret.op = "MustGet"
  /\ ret.out.panic # ""
  /\ ret.s \in Nodes
  /\ binder[ret.s] = 0
  /\ ctxs[ret.s].val.t \notin {"nil"} \cup Implements(keys[ret.k].V)
  /\ IsSet(keys[ret.k], ctxs[ret.s].parent)

(***************************************************************************)
(* C15. Concurrency: goroutines that share one key and one parent context, *)
(* each deriving its own context with WithValue and reading it back, read  *)
(* under every interleaving exactly the value they bound; the lookups on   *)
(* the shared parent (and on every other existing context) and the key's   *)
(* identity and name do not change.                                        *)
(***************************************************************************)
ReadsOwn(g) ==
  /\ gor[g].pc # "panic"
  /\ gor[g].pc \in {"read", "done"}
       => /\ gor[g].localCtx \in Nodes
          /\ ctxs[gor[g].localCtx].parent = gor[g].ctx
          /\ Get(keys[gor[g].k], gor[g].localCtx) = gor[g].value
          /\ \A h \in Started \ {g} : gor[h].pc \in {"read", "done"}
                                        => gor[h].localCtx # gor[g].localCtx
  /\ gor[g].pc = "done" => gor[g].got = gor[g].value

C15_Concurrency ==
  [][/\ \A g \in Goroutines : ReadsOwn(g)'
     /\ \A g \in Started : /\ gor'[g].k = gor[g].k
                           /\ gor'[g].ctx = gor[g].ctx
                           /\ gor'[g].value = gor[g].value
     /\ \A k \in KeyIds :
          /\ keys'[k] = keys[k]
          /\ String(keys[k])' = String(keys[k])
          /\ ctxs' # ctxs =>
               \A s \in Handles : Reads(k, s)' = Reads(k, s)]_vars

(* Two goroutines share a key and a parent on which the key is set, bound  *)
(* different values, and the one that bound first has not yet read while   *)
(* the other has finished. *)
C15_Witness ==
  /\ gor[1].pc = "done"
  /\ gor[2].pc = "read"
  /\ gor[2].localCtx < gor[1].localCtx
  /\ gor[1].k = gor[2].k
  /\ gor[1].ctx = gor[2].ctx
  /\ gor[1].ctx \in Nodes
  /\ gor[1].value # gor[2].value
  /\ IsSet(keys[gor[1].k], gor[1].ctx)
  /\ gor[1].got = gor[1].value

(***************************************************************************)
(* The constructor calls, as the result of the last call records them.     *)
(***************************************************************************)
ConstructOps == {"New", "NewNamed", "NewBool", "NewNamedBool"}

(* The name in effect: the last one supplied, "" if none was. *)
Effective(supplied) == IF supplied = <<>> THEN "" ELSE supplied[Len(supplied)]

(* The call-site fallback name of a key declared at `site`. *)
Fallback(site, ident) ==
  "anonymous(" \o site.file \o ":" \o ToString(site.line) \o ")@" \o FormatP(ident)

(***************************************************************************)
(* C16. Explicit names: a key constructed with a non-empty name, through   *)
(* WithName, NewNamed or NewNamedBool, reports exactly that name from      *)
(* String(), undecorated; NewNamed[V](n) and New[V](WithName(n)) report    *)
(* the same string, and so do NewNamedBool(n) and NewBool(WithName(n)).    *)
(***************************************************************************)
C16_ExplicitNames ==
  /\ (ret.op \in ConstructOps /\ Effective(ret.out.supplied) # "")
       => String(keys[ret.k]) = Effective(ret.out.supplied)
  /\ \A n \in Names \ {""}, site \in UserSites :
       /\ \A V \in Types :
            /\ String(New(V, <<WithName(n)>>, <<site>>)) = n
            /\ String(NewNamed(V, n, <<>>, <<site>>)) = n
            /\ NewNamed(V, n, <<>>, <<site>>) = New(V, <<WithName(n)>>, <<site>>)
       /\ String(NewBool(<<WithName(n)>>, <<site>>)) = n
       /\ String(NewNamedBool(n, <<>>, <<site>>)) = n
       /\ NewNamedBool(n, <<>>, <<site>>) = NewBool(<<WithName(n)>>, <<site>>)

(* NewNamedBool("n") has returned a key whose String() is "n". *)
C16_Witness ==
  /\ ret.op = "NewNamedBool"
  /\ ret.out.supplied = <<"n">>
  /\ String(keys[ret.k]) = "n"

(***************************************************************************)
(* C17. Call-site naming: for New, NewBool, NewNamed("") and               *)
(* NewNamedBool("") the anonymous name is                                  *)
(* anonymous(<file>:<line>)@<address of the identity>, file and line being *)
(* those of the user's call of the exported constructor, never a line      *)
(* inside the package.                                                     *)
(***************************************************************************)
PackageFrames ==
  {FrameComputeKeyName, FrameNew, FrameNewBool, FrameNewNamed, FrameNewNamedBool}

C17_CallSite ==
  /\ (ret.op \in ConstructOps /\ Effective(ret.out.supplied) = "")
       => /\ String(keys[ret.k]) = Fallback(ret.out.site, keys[ret.k].ident)
          /\ \A f \in PackageFrames :
               String(keys[ret.k]) # Fallback(f, keys[ret.k].ident)
  /\ \A site \in UserSites :
       /\ \A V \in Types :
            /\ String(New(V, <<>>, <<site>>)) = Fallback(site, NewOpaque)
            /\ String(NewNamed(V, "", <<>>, <<site>>)) = Fallback(site, NewOpaque)
       /\ String(NewBool(<<>>, <<site>>)) = Fallback(site, NewOpaque)
       /\ String(NewNamedBool("", <<>>, <<site>>)) = Fallback(site, NewOpaque)

(* NewNamedBool("") has returned the second of two anonymous keys; each is *)
(* named after the user's call site and its own address. *)
C17_Witness ==
  /\ ret.op = "NewNamedBool"
  /\ ret.out.supplied = <<"">>
  /\ Len(keys) = 2
  /\ String(keys[2]) = Fallback(ret.out.site, keys[2].ident)
  /\ String(keys[1]) = Fallback(ret.out.site, keys[1].ident)

(***************************************************************************)
(* C18. Empty name equals no name: a key constructed with an explicitly    *)
(* supplied empty string (WithName(""), NewNamed(""), NewNamedBool(""))    *)
(* gets the same call-site fallback name as a key constructed with no name *)
(* at all; String() is never the empty string.                             *)
(***************************************************************************)
C18_EmptyName ==
  /\ \A k \in KeyIds : String(keys[k]) # ""
  /\ (ret.op \in ConstructOps /\ ret.out.supplied # <<>>
        /\ Effective(ret.out.supplied) = "")
       => String(keys[ret.k]) = Fallback(ret.out.site, keys[ret.k].ident)
  /\ \A site \in UserSites :
       /\ \A V \in Types :
            /\ New(V, <<WithName("")>>, <<site>>) = New(V, <<>>, <<site>>)
            /\ NewNamed(V, "", <<>>, <<site>>) = New(V, <<>>, <<site>>)
       /\ NewBool(<<WithName("")>>, <<site>>) = NewBool(<<>>, <<site>>)
       /\ NewNamedBool("", <<>>, <<site>>) = NewBool(<<>>, <<site>>)

(* New[V](WithName("")) has returned a key with the fallback name. *)
C18_Witness ==
  /\ ret.op = "New"
  /\ ret.out.supplied = <<"">>
  /\ String(keys[ret.k]) = Fallback(ret.out.site, keys[ret.k].ident)

(***************************************************************************)
(* C19. Stable display name: the string k.String() returns is fixed at     *)
(* construction; no bind, read, inspection or method call changes it, and  *)
(* the copy of the key inside an Inspection reports the same string.       *)
(***************************************************************************)
C19_StableName ==
  [][/\ \A k \in KeyIds : /\ keys'[k] = keys[k]
                          /\ String(keys[k])' = String(keys[k])
     /\ ret'.op \in ConstructOps
          => String(keys[ret.k])' =
               computeKeyName(Len(keys) + 1, Effective(ret'.out.supplied), 0,
                              <<FrameComputeKeyName, ret'.out.site>>)
     /\ insp' # <<>>
          => /\ Held'.Key.ident \in KeyIds
             /\ String(Held.Key)' = String(keys[Held'.Key.ident])]_vars

(* Inspection.String has been called on an Inspection of an anonymous key, *)
(* taken after the binds; the key still reports its construction name. *)
C19_Witness ==
  /\ ret.op = "Inspection.String"
  /\ Len(ctxs) = MaxCtx
  /\ \E site \in UserSites :
       /\ String(Held.Key) = Fallback(site, Held.Key.ident)
       /\ String(keys[Held.Key.ident]) = Fallback(site, Held.Key.ident)

(***************************************************************************)
(* C20. Round-trip non-identity of GoString: for every key k, named or     *)
(* anonymous, k.GoString() evaluated as a fresh construction yields a key  *)
(* newK of the same value type whose String() equals k.String() and whose  *)
(* identity differs: a value bound with newK is not visible through k on   *)
(* that context, and the reverse.                                          *)
(***************************************************************************)
(* Two distinct keys of one value type and one display name. *)
Twins(a, b) ==
  /\ a # b
  /\ keys[a].V = keys[b].V
  /\ keys[a].bool = keys[b].bool
  /\ String(keys[a]) = String(keys[b])

StringOps == {"Inspection.String", "BoolInspection.String"}

(* What fmt prints for the values of type V the callers bind. *)
Shown(V, x) ==
  CASE V = "bool" -> IF x THEN "true" ELSE "false"
    [] V = "int" -> IF x = 0 THEN "0" ELSE "1"
    [] OTHER -> IF x = NilIface THEN "<nil>" ELSE "impl(1)"

TextOf(i, text) ==
  /\ i.Ok => /\ text = String(i.Key) \o ": " \o Shown(i.Key.V, i.Value)
             /\ text # String(i.Key) \o ": <not set>"
  /\ ~i.Ok => text = String(i.Key) \o ": <not set>"

LiveFlag(op, b, s) ==
  CASE op = "BoolInspection.Enabled" -> Enabled(keys[b], s)
    [] op = "BoolInspection.Disabled" -> Disabled(keys[b], s)
    [] OTHER -> ExplicitlyDisabled(keys[b], s)

BoolMethodOps ==
  {"BoolInspection.Enabled", "BoolInspection.Disabled",
   "BoolInspection.ExplicitlyDisabled"}

C22_BoolInspectionAgrees ==
  /\ \A b \in BoolKeyIds, s \in Handles :
       LET i == InspectBool(keys[b], s)
       IN /\ BoolInspection_Enabled(i) = Enabled(keys[b], s)
          /\ BoolInspection_Disabled(i) = Disabled(keys[b], s)
          /\ BoolInspection_ExplicitlyDisabled(i) = ExplicitlyDisabled(keys[b], s)
          /\ ExplicitlyDisabled(keys[b], s)
               = (TryGet(keys[b], s).ok /\ TryGet(keys[b], s).val = FALSE)
          /\ ExplicitlyDisabled(keys[b], s)
               = (/\ BoundBy(b, s) # {}
                  /\ ctxs[LastBind(b, s)].val = ToAny("bool", FALSE))
  /\ ret.op \in BoolMethodOps =>
       \A b \in BoolKeyIds, s \in Handles :
         Held = InspectBool(keys[b], s) => ret.out.val = LiveFlag(ret.op, b, s)

(* ExplicitlyDisabled was called on the BoolInspection taken on the        *)
(* current context, where the key was bound to false, and answered true as *)
(* the live key does; on the root both answer false. *)
C22_Witness ==
  /\ ret.op = "BoolInspection.ExplicitlyDisabled"
  /\ ret.out.val = TRUE
  /\ \E b \in BoolKeyIds :
       /\ Held = InspectBool(keys[b], Len(ctxs))
       /\ ExplicitlyDisabled(keys[b], Len(ctxs))
       /\ ~ExplicitlyDisabled(keys[b], Background)
       /\ Disabled(keys[b], Background)

(***************************************************************************)
(* C23. A BoolKey adds no identity of its own and a key is copy-safe:      *)
(* WithEnabled(s) and WithDisabled(s) are WithValue(s, true) and           *)
(* WithValue(s, false), Enabled(s) equals Get(s), and a value bound        *)
(* through the BoolKey, the same key used as a Key[bool], the Key field of *)
(* an Inspection or any copy of the key is read back through all of them.  *)
(***************************************************************************)
C23_CopySafe ==
  /\ \A b \in BoolKeyIds, s \in Handles :
       /\ WithEnabled(keys[b], s) = WithValue(keys[b], s, TRUE)
       /\ WithDisabled(keys[b], s) = WithValue(keys[b], s, FALSE)
       /\ Enabled(keys[b], s) = Get(keys[b], s)
  /\ \A k \in KeyIds : \A c \in Copies(k) :
       /\ c.ident = keys[k].ident
       /\ String(c) = String(keys[k])
       /\ \A s \in Handles :
            /\ TryGet(c, s) = TryGet(keys[k], s)
            /\ Inspection_TryGet(Inspect(c, s)) = TryGet(keys[k], s)
  /\ (ret.op \in BindOps \cup {"Copy.WithValue"} /\ ret.out.panic = "")
       => \A c \in Copies(ret.k) :
            /\ ToAny(keys[ret.k].V, Get(c, ret.out.val)) = ctxs[ret.out.val].val
            /\ ret.op = "Copy.WithValue" => Get(c, ret.out.val) = ret.out.value
            /\ ret.op = "WithEnabled" => Get(c, ret.out.val) = TRUE
            /\ ret.op = "WithDisabled"
                 => /\ Get(c, ret.out.val) = FALSE
                    /\ TryGet(c, ret.out.val).ok

(* true was bound through the key[bool] that a BoolKey embeds, on a        *)
(* context where the flag was not enabled, and the BoolKey reports         *)
(* enabled on the result. *)
C23_Witness ==
  /\ ret.op = "Copy.WithValue"
  /\ keys[ret.k].bool
  /\ ret.out.through = downcast(keys[ret.k])
  /\ ret.out.through # keys[ret.k]
  /\ ret.out.value = TRUE
  /\ ~Enabled(keys[ret.k], ret.s)
  /\ Enabled(keys[ret.k], ret.out.val)

(***************************************************************************)
(* C24. The two implementations of the reads agree: for every key, context *)
(* and fallback the direct implementation (computed from TryGet) returns   *)
(* or panics exactly as the one that delegates to Inspect/InspectBool and  *)
(* the Inspection methods, and DebugValue(ctx) is Inspect(ctx).String().   *)
(***************************************************************************)
DirectAgrees(k, s) ==
  /\ Direct_Get(k, s) = Get(k, s)
  /\ \A d \in Values(k.V) : Direct_GetOrDefault(k, s, d) = GetOrDefault(k, s, d)
  /\ Direct_MustGet(k, s) = MustGet(k, s)
  /\ Direct_IsSet(k, s) = IsSet(k, s)
  /\ Direct_IsNotSet(k, s) = IsNotSet(k, s)
  /\ Direct_DebugValue(k, s) = Inspection_String(Inspect(k, s))
  /\ k.bool => /\ Direct_Enabled(k, s) = Enabled(k, s)
               /\ Direct_Disabled(k, s) = Disabled(k, s)
               /\ Direct_ExplicitlyDisabled(k, s) = ExplicitlyDisabled(k, s)
               /\ Direct_DebugValue(k, s) = BoolInspection_String(InspectBool(k, s))

DirectOf(op, k, s, d) ==
  CASE op = "Get" -> Return(Direct_Get(k, s))
    [] op = "GetOrDefault" -> [val |-> Direct_GetOrDefault(k, s, d), default |-> d]
    [] op = "MustGet" -> Direct_MustGet(k, s)
    [] op = "IsSet" -> Return(Direct_IsSet(k, s))
    [] op = "IsNotSet" -> Return(Direct_IsNotSet(k, s))
    [] op = "Enabled" -> Return(Direct_Enabled(k, s))
    [] op = "Disabled" -> Return(Direct_Disabled(k, s))
    [] OTHER -> Return(Direct_ExplicitlyDisabled(k, s))

DirectOps ==
  {"Get", "GetOrDefault", "MustGet", "IsSet", "IsNotSet", "Enabled",
   "Disabled", "ExplicitlyDisabled"}

C24_ImplementationsAgree ==
  /\ \A k \in KeyIds, s \in Handles : DirectAgrees(keys[k], s)
  /\ ret.op \in DirectOps =>
       ret.out = DirectOf(ret.op, keys[ret.k], ret.s,
                          IF ret.op = "GetOrDefault" THEN ret.out.default ELSE 0)

(* MustGet returned a bound zero value where the direct MustGet returns it *)
(* too, and on the root both panic with the same message. *)
C24_Witness ==
  /\ ret.op = "MustGet"
  /\ ret.out = Return(Zero(keys[ret.k].V))
  /\ Direct_MustGet(keys[ret.k], ret.s) = ret.out
  /\ MustGet(keys[ret.k], Background).panic # ""
  /\ Direct_MustGet(keys[ret.k], Background) = MustGet(keys[ret.k], Background)

(***************************************************************************)
(* C25. Binds of different keys commute: for every context s and keys A    *)
(* and B with different identities, B.WithValue(A.WithValue(s, a), b) and  *)
(* A.WithValue(B.WithValue(s, b), a) give every key the same value and     *)
(* presence flag; and binding the same value under the same key twice in a *)
(* row gives every key what binding it once gives.                         *)
(***************************************************************************)
SameResults(x, y) ==
  \A k \in KeyIds :
    /\ TryGet(keys[k], x) = TryGet(keys[k], y)
    /\ Inspect(keys[k], x) = Inspect(keys[k], y)

C25_BindsCommute ==
  /\ \A g \in Derivations : gor[g].pc # "panic"
  /\ (gor[1].pc = "done" /\ gor[2].pc = "done" /\ gor[1].k # gor[2].k)
       => /\ keys[gor[1].k].ident # keys[gor[2].k].ident
          /\ gor[1].localCtx # gor[2].localCtx
          /\ SameResults(gor[1].localCtx, gor[2].localCtx)
  /\ \A g \in Derivations :
       (gor[g].pc = "done" /\ gor[1].k = gor[2].k /\ gor[1].value = gor[2].value)
         => SameResults(gor[g].localCtx, ctxs[gor[g].localCtx].parent)

(* Both derivations are made from a context on which A was already set,    *)
(* with two different keys; they are different contexts, and on both A     *)
(* reads its new value and B reads b. *)
C25_Witness ==
  /\ gor[1].pc = "done" /\ gor[2].pc = "done"
  /\ gor[1].k # gor[2].k
  /\ gor[1].ctx # Background
  /\ IsSet(keys[gor[1].k], gor[1].ctx)
  /\ Get(keys[gor[1].k], gor[1].ctx) # gor[1].value
  /\ gor[1].localCtx # gor[2].localCtx
  /\ \A x \in {gor[1].localCtx, gor[2].localCtx} :
       /\ TryGet(keys[gor[1].k], x) = [val |-> gor[1].value, ok |-> TRUE]
       /\ TryGet(keys[gor[2].k], x) = [val |-> gor[2].value, ok |-> TRUE]

(***************************************************************************)
(* C26. Every Inspection that Inspect or InspectBool returns has a non-nil *)
(* Key with the identity and name of the key inspected, its (Value, Ok) is *)
(* what TryGet returns on the same context, and Ok = false implies         *)
(* Value = zero(V); so MustGet on a returned Inspection with Ok = false    *)
(* panics with the key-not-set message, not with a nil dereference.        *)
(***************************************************************************)
WellFormed(i, k, s) ==
  /\ i.Key # NoKey(k.V)
  /\ i.Key.ident = k.ident
  /\ i.Key.ident # Nil
  /\ String(i.Key) = String(k)
  /\ [val |-> i.Value, ok |-> i.Ok] = TryGet(k, s)
  /\ ~i.Ok => /\ i.Value = Zero(k.V)
              /\ Inspection_MustGet(i) = Panic(k.V, NotSetMessage(String(k)))
              /\ Inspection_MustGet(i).panic # NilDereference

Returned ==
  \E k \in KeyIds, s \in Handles :
    /\ Held.Key = downcast(keys[k])
    /\ Held = Inspect(keys[k], s)

C26_ReturnedInspection ==
  /\ \A k \in KeyIds, s \in Handles :
       /\ WellFormed(Inspect(keys[k], s), keys[k], s)
       /\ keys[k].bool => WellFormed(InspectBool(keys[k], s), keys[k], s)
  /\ ret.op \in {"Inspect", "InspectBool"} => WellFormed(Held, keys[ret.k], ret.s)
  /\ (ret.op = "Inspection.MustGet" /\ Returned /\ ~Held.Ok)
       => ret.out = Panic(Held.Key.V, NotSetMessage(String(Held.Key)))

(* MustGet was called on the BoolInspection taken where the key was not    *)
(* set, and panicked with the message that names the key. *)
C26_Witness ==
  /\ ret.op = "Inspection.MustGet"
  /\ insp[1].bool
  /\ \E k \in BoolKeyIds, s \in Handles :
       /\ Held = InspectBool(keys[k], s)
       /\ ~Held.Ok
       /\ ret.out.panic = "key " \o String(keys[k]) \o " is not set in context"

(***************************************************************************)
(* C27. Call-site resolution failure is not an error: when the runtime     *)
(* cannot resolve the caller, an unnamed key is still constructed, its     *)
(* name is anonymous@<address of the identity> without a source location,  *)
(* and binds and reads through it behave as through any other key.         *)
(***************************************************************************)
Unlocated(ident) == "anonymous@" \o FormatP(ident)

(* Key number k got its name where the caller could not be resolved. *)
Unresolved(k) == String(keys[k]) = Unlocated(keys[k].ident)

(* The same key as it would be had the caller been resolved. *)
Located(k, site) == [keys[k] EXCEPT !.name = Fallback(site, keys[k].ident)]

C27_UnresolvedCaller ==
  /\ (ret.op \in ConstructOps /\ ret.out.site = NoSite)
       => /\ ret.k = Len(keys)
          /\ keys[ret.k].ident # Nil
          /\ String(keys[ret.k])
               = IF Effective(ret.out.supplied) = ""
                   THEN Unlocated(keys[ret.k].ident)
                   ELSE Effective(ret.out.supplied)
  /\ \A k \in KeyIds :
       Unresolved(k) =>
         /\ \A site \in UserSites : String(keys[k]) # Fallback(site, keys[k].ident)
         /\ \A h \in Handles :
              /\ Agrees(k, h)
              /\ \A site \in UserSites :
                   /\ TryGet(keys[k], h) = TryGet(Located(k, site), h)
                   /\ Get(keys[k], h) = Get(Located(k, site), h)
                   /\ MustGet(keys[k], h).val = MustGet(Located(k, site), h).val
                   /\ (MustGet(keys[k], h).panic = "")
                        = (MustGet(Located(k, site), h).panic = "")
              /\ MustGet(keys[k], h).panic
                   \in {"", "key " \o Unlocated(keys[k].ident) \o " is not set in context"}
  /\ (ret.op \in BindOps /\ Unresolved(ret.k))
       => /\ ret.out.panic = ""
          /\ ToAny(keys[ret.k].V, Get(keys[ret.k], ret.out.val)) = ctxs[ret.out.val].val
  /\ (ret.op \in {"Get", "MustGet"} /\ Unresolved(ret.k))
       => ret.out = (IF ret.op = "Get" THEN Return(Get(keys[ret.k], ret.s))
                     ELSE MustGet(keys[ret.k], ret.s))

(* MustGet has returned the value 1 bound through a key that NewBool or    *)
(* New constructed without a resolvable caller; the key's name carries no  *)
(* location. *)
C27_Witness ==
  /\ ret.op = "MustGet"
  /\ Unresolved(ret.k)
  /\ keys[ret.k].V = "int"
  /\ ret.out = Return(1)
  /\ String(keys[ret.k]) = "anonymous@" \o FormatP(keys[ret.k].ident)

(***************************************************************************)
(* C28. Options are applied in argument order and the last WithName wins:  *)
(* NewNamed[V](n, opts...) and NewNamedBool(n, opts...) apply WithName(n)  *)
(* first and the caller's options after it, so a later WithName(m)         *)
(* replaces n and a later WithName("") makes the key anonymous; the        *)
(* depth-increment options never change the name and the caller's options  *)
(* never change the depth.                                                 *)
(***************************************************************************)
(* The option lists a caller writes with WithName: up to two options. *)
NameOptions ==
  {<<>>} \cup {<<WithName(n)>> : n \in Names}
         \cup {<<WithName(n), WithName(m)>> : n \in Names, m \in Names}

(* The name a key declared next at `site` has when `name` is in effect. *)
Resolved(name, site) == IF name = "" THEN Fallback(site, NewOpaque) ELSE name

OuterStacks == {<<>>} \cup {<<site>> : site \in UserSites}

(* The WithName argument of the expression GoString() returns, if the      *)
(* expression is a constructor call. *)
Argument(k) ==
  CHOOSE p \in {Parse(GoString(k), {String(k)})} : TRUE

C29_NameNeverEmpty ==
  /\ \A k \in KeyIds :
       /\ String(keys[k]) # ""
       /\ Argument(keys[k]).ok
       /\ Argument(keys[k]).call.name = String(keys[k])
       /\ Argument(keys[k]).call.name # ""
       /\ GoString(keys[k]) # GoString([keys[k] EXCEPT !.name = ""])
  /\ ctxs = <<>> =>
       \A U \in NameOptions, outer \in OuterStacks :
         /\ \A V \in Types :
              /\ String(New(V, U, outer)) # ""
              /\ \A n \in Names : String(NewNamed(V, n, U, outer)) # ""
         /\ String(NewBool(U, outer)) # ""
         /\ \A n \in Names : String(NewNamedBool(n, U, outer)) # ""

(* New[int](WithName("")) has returned a key where the caller could not be *)
(* resolved; its name is the address-only fallback and its GoString()      *)
(* embeds that name. *)
C29_Witness ==
  /\ ret.op = "New"
  /\ ret.out.site = NoSite
  /\ ret.out.supplied = <<"">>
  /\ keys[ret.k].V = "int"
  /\ String(keys[ret.k]) = Unlocated(keys[ret.k].ident)
  /\ GoString(keys[ret.k])
       = "feature.New[int](feature.WithName("
           \o Quote(Unlocated(keys[ret.k].ident)) \o "))"


(***************************************************************************)
(* Option slices.  A constructor called as New(opts...) receives the       *)
(* caller's slice value itself: the same backing array, length and         *)
(* capacity.  A slice is the pair of its array (0 for the nil slice) and   *)
(* its length; it starts at the first cell of the array, so its capacity   *)
(* is the array's length.  Each cell records the Option stored in it and   *)
(* the goroutines that have written it since the program started them.     *)
(***************************************************************************)
MaxArrays == 2
MaxSlices == 2
MaxCap == 2
MaxSpreadKeys == 2

(* The zero value of Option, which a cell holds until it is assigned. *)
NilOption == [kind |-> "nil", name |-> ""]

Cell(opt, by) == [opt |-> opt, by |-> by]

(* cap(s) *)
Cap(mem, s) == IF s.array = 0 THEN 0 ELSE Len(mem[s.array])

(* The elements of s: what ranging over it reads. *)
Elems(mem, s) == [i \in 1..s.len |-> mem[s.array][i].opt]

(* A newly allocated array of c cells whose first cells hold elems. *)
NewArray(elems, c) ==
  [i \in 1..c |-> IF i <= Len(elems) THEN Cell(elems[i], {}) ELSE Cell(NilOption, {})]

(* runtime.growslice for pointer-sized elements: the capacity doubles, or  *)
(* becomes the needed length if that is larger, and is rounded up to a     *)
(* malloc size class (8, 16, 24, 32, 48, 64 bytes). *)
GrowCap(oldCap, newLen) ==
  LET c == IF newLen > 2 * oldCap THEN newLen ELSE 2 * oldCap
  IN IF c = 5 THEN 6 ELSE IF c = 7 THEN 8 ELSE c

(* append(s, elems...) executed by the goroutines w ({} is the main        *)
(* goroutine, before it starts the others): with enough capacity the       *)
(* elements are stored in the cells after s.len of the array of s, and     *)
(* otherwise in a new array, after a copy of the elements of s. *)
append(mem, s, elems, w) ==
  IF elems = <<>> THEN [mem |-> mem, s |-> s]
  ELSE IF s.len + Len(elems) <= Cap(mem, s)
    THEN LET old == mem[s.array]
             new == [i \in 1..Len(old) |->
                       IF i \in (s.len + 1)..(s.len + Len(elems))
                         THEN Cell(elems[i - s.len], old[i].by \cup w)
                         ELSE old[i]]
         IN [mem |-> [mem EXCEPT ![s.array] = new],
             s |-> [s EXCEPT !.len = s.len + Len(elems)]]
    ELSE [mem |-> Append(mem, NewArray(Elems(mem, s) \o elems,
                                       GrowCap(Cap(mem, s), s.len + Len(elems)))),
          s |-> [array |-> Len(mem) + 1, len |-> s.len + Len(elems)]]

(* appendCallerDepthIncr on a slice: append(opts, func(o){ o.depth++ }). *)
SpreadAppendCallerDepthIncr(mem, opts, w) == append(mem, opts, <<DepthIncr>>, w)

(* New[V](options...) on the slice `options`: the key, and the memory      *)
(* after the call. *)
SpreadNew(V, mem, options, outer, w) ==
  LET a == SpreadAppendCallerDepthIncr(mem, options, w)
      opts == optionsFrom(Elems(a.mem, a.s))
      ident == NewOpaque
  IN [key |-> [name |-> computeKeyName(ident, opts.name, opts.depth,
                                       <<FrameComputeKeyName, FrameNew>> \o outer),
               ident |-> ident,
               V |-> V,
               bool |-> FALSE],
      mem |-> a.mem]

(* NewNamed[V](name, options...):                                          *)
(* New[V](append([]Option{WithName(name)}, options...)...) *)
SpreadNewNamed(V, name, mem, options, outer, w) ==
  LET a == SpreadAppendCallerDepthIncr(mem, options, w)
      lit == [mem |-> Append(a.mem, NewArray(<<WithName(name)>>, 1)),
              s |-> [array |-> Len(a.mem) + 1, len |-> 1]]
      b == append(lit.mem, lit.s, Elems(lit.mem, a.s), w)
  IN SpreadNew(V, b.mem, b.s, <<FrameNewNamed>> \o outer, w)

(* NewBool(options...) *)
SpreadNewBool(mem, options, outer, w) ==
  LET a == SpreadAppendCallerDepthIncr(mem, options, w)
      n == SpreadNew("bool", a.mem, a.s, <<FrameNewBool>> \o outer, w)
  IN [key |-> [n.key EXCEPT !.bool = TRUE], mem |-> n.mem]

(* NewNamedBool(name, options...) *)
SpreadNewNamedBool(name, mem, options, outer, w) ==
  LET a == SpreadAppendCallerDepthIncr(mem, options, w)
      lit == [mem |-> Append(a.mem, NewArray(<<WithName(name)>>, 1)),
              s |-> [array |-> Len(a.mem) + 1, len |-> 1]]
      b == append(lit.mem, lit.s, Elems(lit.mem, a.s), w)
  IN SpreadNewBool(b.mem, b.s, <<FrameNewNamedBool>> \o outer, w)

(* The constructor fn called on the slice `options` by the goroutines w. *)
Spread(fn, V, name, mem, options, outer, w) ==
  CASE fn = "New" -> SpreadNew(V, mem, options, outer, w)
    [] fn = "NewNamed" -> SpreadNewNamed(V, name, mem, options, outer, w)
    [] fn = "NewBool" -> SpreadNewBool(mem, options, outer, w)
    [] fn = "NewNamedBool" -> SpreadNewNamedBool(name, mem, options, outer, w)

(* The arrays the caller can still reach once a call has returned: those   *)
(* that existed before it. *)
Retain(mem) == SubSeq(mem, 1, Len(arrays))

(* opts := make([]Option, len, cap), its elements assigned WithName        *)
(* options. *)
CallMakeOptions ==
  /\ Started = {}
  /\ Len(arrays) < MaxArrays
  /\ Len(slices) < MaxSlices
  /\ \E c \in 0..MaxCap, elems \in UserOptions :
       /\ Len(elems) <= c
       /\ arrays' = Append(arrays, NewArray(elems, c))
       /\ slices' = Append(slices, [array |-> Len(arrays) + 1, len |-> Len(elems)])
  /\ ret' = [op |-> "make", k |-> 0, s |-> 0, out |-> NoResult]
  /\ UNCHANGED <<keys, ctxs, binder, insp, gor>>

(* more := append(opts, WithName(name)), in the caller's code. *)
CallAppendOption ==
  /\ Started = {}
  /\ Len(slices) < MaxSlices
  /\ \E s \in 1..Len(slices), name \in Names :
       LET r == append(arrays, slices[s], <<WithName(name)>>, {})
       IN /\ Len(r.mem) <= MaxArrays
          /\ arrays' = r.mem
          /\ slices' = Append(slices, r.s)
  /\ ret' = [op |-> "append", k |-> 0, s |-> 0, out |-> NoResult]
  /\ UNCHANGED <<keys, ctxs, binder, insp, gor>>

(* A constructor called with one of the caller's slices spread as its      *)
(* options.  The result records the slice and the names its elements       *)
(* supplied. *)
SpreadConstruct(fn, V, name, s, site) ==
  LET r == Spread(fn, V, name, arrays, slices[s], <<site>>, {})
  IN /\ keys' = Append(keys, r.key)
     /\ arrays' = Retain(r.mem)
     /\ ret' = [op |-> fn, k |-> Len(keys) + 1, s |-> 0,
                out |-> [val |-> 0, site |-> site, opts |-> s,
                         supplied |-> (IF fn \in {"NewNamed", "NewNamedBool"}
                                         THEN <<name>> ELSE <<>>)
                                       \o NamesOf(Elems(arrays, slices[s]))]]
     /\ UNCHANGED <<ctxs, binder, insp, gor, slices>>

CallSpread ==
  /\ Started = {}
  /\ Len(keys) < MaxSpreadKeys
  /\ \E s \in 1..Len(slices), site \in UserSites :
       \/ SpreadConstruct("New", "int", "", s, site)
       \/ \E name \in Names : SpreadConstruct("NewNamed", "int", name, s, site)
       \/ SpreadConstruct("NewBool", "bool", "", s, site)
       \/ \E name \in Names : SpreadConstruct("NewNamedBool", "bool", name, s, site)

(* The main goroutine starts the goroutines; each will call one            *)
(* constructor with the same slice of the caller. *)
GoSpread ==
  /\ Started = {}
  /\ Len(keys) + NumGoroutines <= MaxSpreadKeys
  /\ \E s \in 1..Len(slices) :
       \E fns \in [Goroutines -> ConstructOps] :
         gor' = [g \in Goroutines |->
                   [Idle EXCEPT !.pc = "construct", !.fn = fns[g], !.opts = s]]
  /\ ret' = [op |-> "go", k |-> 0, s |-> 0, out |-> NoResult]
  /\ UNCHANGED <<keys, ctxs, binder, insp, arrays, slices>>

(* Goroutine g makes its constructor call.  The writes of the call are     *)
(* single stores of a func value, the same function from every caller, so  *)
(* the memory after the calls does not depend on how they interleave; the  *)
(* cells record who wrote them. *)
GoConstruct(g) ==
  /\ gor[g].pc = "construct"
  /\ \E site \in UserSites :
       LET fn == gor[g].fn
           V == IF fn \in {"NewBool", "NewNamedBool"} THEN "bool" ELSE "int"
           r == Spread(fn, V, "n", arrays, slices[gor[g].opts], <<site>>, {g})
       IN /\ keys' = Append(keys, r.key)
          /\ arrays' = Retain(r.mem)
          /\ gor' = [gor EXCEPT ![g].pc = "done", ![g].k = Len(keys) + 1]
          /\ ret' = [op |-> "go", k |-> Len(keys) + 1, s |-> 0, out |-> NoResult]
  /\ UNCHANGED <<ctxs, binder, insp, slices>>

GoConstructs == \E g \in Goroutines : GoConstruct(g)

(* SpecSlice: a program that builds option slices, constructs keys from    *)
(* them, and starts goroutines that construct keys from one of them. *)
NextSlice ==
  \/ CallMakeOptions
  \/ CallAppendOption
  \/ CallSpread
  \/ GoSpread
  \/ GoConstructs

SpecSlice == Init /\ [][NextSlice]_vars

(***************************************************************************)
(* C30. Key construction writes no memory shared with the caller: a        *)
(* constructor called with an options slice leaves the caller's slices and *)
(* the contents of their backing arrays as they were, and no cell is       *)
(* written by two goroutines that construct keys from the same slice.      *)
(***************************************************************************)
(* What the cells of the caller's arrays hold. *)
Stored == [a \in 1..Len(arrays) |-> [i \in 1..Len(arrays[a]) |-> arrays[a][i].opt]]

(* A cell written by more than one goroutine. *)
Raced ==
  \E a \in 1..Len(arrays) :
    \E i \in 1..Len(arrays[a]) : Cardinality(arrays[a][i].by) > 1

C30_NoSharedMemoryWritten ==
  [][/\ keys' # keys => (Stored' = Stored /\ slices' = slices)
     /\ ~Raced']_vars

====
